---- MODULE Spec2Model ----
(***************************************************************************)
(* Positional doubly linked list (linked_list/_double.py and               *)
(* linked_list/positional.py).  Nodes live in an arena of identifiers;     *)
(* header and trailer sentinels are negative identifiers, one pair per     *)
(* list instance.  A position is a record (list, node).                    *)
(***************************************************************************)
EXTENDS Integers, Sequences, FiniteSets, TLC

\* ---------------------------------------------------------------- bounds
\* Node objects a behaviour of Spec may construct.  Nodes are never reused: a
\* caller may hold the position of a node for ever.  SpecWide allows one
\* more, which the arena NodeIds has room for.
MaxNodes == 2

Lists == {1, 2}
Items == {1, 2}

\* Largest access count a favourites entry reaches: access is not called on
\* a value whose count has reached it.
MaxCount == 2

\* the values a favourites list is asked for
Values == {1, 2, 3}

\* Longest sequence of calls made on one favourites instance in a run that
\* keeps the calls it has made (SpecScript)
MaxCalls == 4

\* Node objects a client constructs in the list it hands to insertion_sort
MaxSort == 3

\* Items a deque or a queue holds at a time: no item is added to a container
\* that holds as many
MaxLen == 3

\* enqueue calls made on a queue between two clear calls
MaxEnqueues == 4

\* Elements a DynamicArray holds at a time: nothing is inserted into an
\* array that holds as many
MaxArray == 3

\* _Node objects a client constructs in a tree
MaxTree == 3

\* the keys of the items sorted
Keys == {1, 2, 3}

\* ---------------------------------------------------------------- objects
NodeIds == 1..(MaxNodes + 1)
Null == 0
NoItem == Null

Header(l) == 1 - 2 * l
Trailer(l) == 0 - 2 * l
Headers == {Header(l) : l \in Lists}
Trailers == {Trailer(l) : l \in Lists}

VARIABLES
    next,        \* Header.next and Node.next
    prev,        \* Trailer.prev and Node.prev
    data,        \* Node.data
    deprecated,  \* Node.deprecated
    owner,       \* the list whose insertion created the node (0: not created)
    size,        \* DoublyLinkedBase._size, per list
    alloc,       \* number of Node objects constructed so far
    last,        \* the last call: its arguments and what it returned or raised
    removed,     \* history: the nodes a remove call has returned the item of
    before,      \* history: the list as it was when the last call, an
                 \* insert_last, began (unset after any other call)
    flist,       \* FavouritesList._list, one positional list per favourites class
    fcall,       \* the last call on a favourites list and how it ended
    hits,        \* history: per class and value, the access calls made since
                 \* the value was last absent
    calls,       \* history: the calls made so far, in a run of SpecScript
    plist,       \* the PositionalList a client builds and hands to insertion_sort
    scall,       \* the last call on that list and how it ended
    deque,       \* a Deque
    queue,       \* a Queue
    cqueue,      \* a CircularQueue
    qcall,       \* the last call on the deque or on a queue and how it ended
    reference,   \* history: the items the calls so far should have left in the
                 \* container called, front to back, and the enqueue and
                 \* dequeue calls that succeeded since the last clear
    array,       \* a DynamicArray
    tree,        \* a LinkedBinaryTree
    tcall,       \* the last call on the tree and how it ended
    favorites,   \* FavoritesList._data of favorites_list.py, a
                 \* positional_list.PositionalList
    oldqueue     \* a CircularQueue of circular_queue.py

favourites == <<flist, fcall, hits, calls>>
vars == <<next, prev, data, deprecated, owner, size, alloc, last, removed, before,
          flist, fcall, hits, calls, plist, scall,
          deque, queue, cqueue, qcall, reference, array, tree, tcall,
          favorites, oldqueue>>
older == <<favorites, oldqueue>>
later == <<array, tree, tcall, older>>
sorting == <<plist, scall>>
containers == <<deque, queue, cqueue, qcall, reference>>
others == <<plist, scall, deque, queue, cqueue, qcall, reference, later>>
store == <<next, prev, data, deprecated, owner, size, alloc>>

Created == 1..alloc

\* Position(node, list)
Position(node, list) == [node |-> node, list |-> list]

\* PositionalList._make_position
MakePosition(l, node) == Position(node, l)

\* the positions handed out so far: every insertion returns the position of
\* the node it created, and a caller may keep it for any length of time
Handles == {MakePosition(owner[n], n) : n \in Created}

\* mutant of PositionEq: nodes are compared by the item they hold
PositionEqByItem(p, q) == p.list = q.list /\ data[p.node] = data[q.node]

\* Position.__eq__: lists and nodes define no __eq__, so == on them is identity
PositionEq(p, q) == p.list = q.list /\ p.node = q.node

\* ---------------------------------------------------------------- traversal
RECURSIVE Walk(_, _, _)
Walk(nx, node, fuel) ==
    IF node \in Trailers \/ fuel = 0 THEN <<>>
    ELSE <<node>> \o Walk(nx, nx[node], fuel - 1)

\* DoublyLinkedBase.__iter__, as the sequence of nodes met
NodesOf(nx, l) == Walk(nx, nx[Header(l)], MaxNodes + 2)
Forward(l) == NodesOf(next, l)

RECURSIVE WalkBack(_, _, _)
WalkBack(pv, node, fuel) ==
    IF node \in Headers \/ fuel = 0 THEN <<>>
    ELSE <<node>> \o WalkBack(pv, pv[node], fuel - 1)

\* the nodes met walking prev links from the trailer
Backward(l) == WalkBack(prev, prev[Trailer(l)], MaxNodes + 2)

\* DoublyLinkedBase.__iter__: the items front to back
ItemsOf(nx, dt, l) == [i \in 1..Len(NodesOf(nx, l)) |-> dt[NodesOf(nx, l)[i]]]
Elements(l) == ItemsOf(next, data, l)

\* DoublyLinkedBase.__len__
LenOf(l) == size[l]

Range(s) == {s[i] : i \in 1..Len(s)}

\* ---------------------------------------------------------------- calls
NoError == "none"
ValueError == "ValueError"
IndexError == "IndexError"

\* a call: the operation, the list it was made on, the position and, when
\* the call got as far as using it, the item it was given; then the error
\* raised, the item returned and the node of the position returned
Call(op, l, p, item, err, ret, retnode) ==
    [op |-> op, list |-> l, plist |-> p.list, pnode |-> p.node, item |-> item,
     err |-> err, ret |-> ret, retnode |-> retnode]

NoPosition == Position(Null, 0)

NoSnapshot == [set |-> FALSE, item |-> NoItem, size |-> 0, nodes |-> <<>>, elems |-> <<>>]

\* ---------------------------------------------------------------- favourites objects
TypeError == "TypeError"

\* the two favourites classes; each instance owns one PositionalList
Frequency == "FavouritesList"
MoveToFront == "FavouritesListMTF"
Classes == {Frequency, MoveToFront}

\* identities of the positional lists: the _list of the instance of each
\* class, and the list FavouritesListMTF.top builds
ListOf(cls) == IF cls = Frequency THEN 1 ELSE 2
CloneList == 3

\* Node objects of one such list.  No position leaves a favourites method, so a
\* node that is unlinked when the method returns is unreachable and its
\* identifier is free again; a method holds at most one node more than there
\* are values.
FavNodes == 1..(Cardinality(Values) + 1)

\* _Item(value): the count starts at 0
_Item(value) == [value |-> value, count |-> 0]
NoEntry == [value |-> Null, count |-> 0]

\* PositionalList(): DoublyLinkedBase.__init__
EmptyList(l) ==
    [id |-> l,
     next |-> [n \in FavNodes \cup {Header(l)} |-> IF n = Header(l) THEN Trailer(l) ELSE Null],
     prev |-> [n \in FavNodes \cup {Trailer(l)} |-> IF n = Trailer(l) THEN Header(l) ELSE Null],
     data |-> [n \in FavNodes |-> NoEntry],
     deprecated |-> [n \in FavNodes |-> FALSE],
     size |-> 0,
     err |-> NoError]

\* ---------------------------------------------------------------- older favourites objects
AttributeError == "AttributeError"
ImportError == "ImportError"

\* the class of favorites_list.py and the identity of its _data, a
\* positional_list.PositionalList
Favorites == "favorites_list.FavoritesList"
FavoritesData == 6

\* Position(): a Position object whose _list and _node are None, which is
\* what delete leaves of the Position object it was given
DeprecatedPosition == Position(Null, 0 - 3)

\* doubly_linked.Node.__init__(self, data, *, prev=None, next=None): Node()
\* without data raises TypeError ...
NodeDataOptional == FALSE
\* ... and so does Node(element, prev_node, next_node), prev and next being
\* keyword-only
NodeLinksPositional == FALSE
\* Node.__slots__ is "data", "prev", "next": reading node.element raises
\* AttributeError
NodeHasElement == FALSE
\* favorites_list._Item.__slots__ is "_value", "_count": self.value = value
\* raises AttributeError
ItemHasValue == FALSE

\* PositionalList(): DoublyLinkedBase.__init__ of doubly_linked.py, as it
\* leaves the list when both Node() calls return
NewFavorites ==
    [id |-> FavoritesData,
     next |-> [n \in FavNodes \cup {Header(FavoritesData)} |->
                 IF n = Header(FavoritesData) THEN Trailer(FavoritesData) ELSE Null],
     prev |-> [n \in FavNodes \cup {Trailer(FavoritesData)} |->
                 IF n = Trailer(FavoritesData) THEN Header(FavoritesData) ELSE Null],
     data |-> [n \in FavNodes |-> NoEntry],
     size |-> 0,
     err |-> NoError]

\* ---------------------------------------------------------------- sorted list objects
\* identity of the PositionalList handed to insertion_sort
SortList == 4

\* Node objects of that list: a client keeps the positions it was given, so no
\* identifier is used twice; the sort constructs one node for every pivot it
\* moves, fewer than there are nodes in the list
SortNodes == 1..(2 * MaxSort - 1)

\* an item the client inserts: key is what <= and > compare, tag tells two
\* items of equal key apart (the identity of the object inserted)
SortItem(key, tag) == [key |-> key, tag |-> tag]
NoSortItem == SortItem(Null, Null)

\* PositionalList(): DoublyLinkedBase.__init__; alloc counts the Node objects
\* constructed
NewList ==
    [id |-> SortList,
     next |-> [n \in SortNodes \cup {Header(SortList)} |->
                 IF n = Header(SortList) THEN Trailer(SortList) ELSE Null],
     prev |-> [n \in SortNodes \cup {Trailer(SortList)} |->
                 IF n = Trailer(SortList) THEN Header(SortList) ELSE Null],
     data |-> [n \in SortNodes |-> NoSortItem],
     deprecated |-> [n \in SortNodes |-> FALSE],
     size |-> 0,
     err |-> NoError,
     alloc |-> 0]

\* a call on that list: the function or method, the error it ended with, the
\* number of pivots insertion_sort moved, and the list as it was when
\* insertion_sort began (NewList after any other call)
SortCall(op, err, moves, input) ==
    [op |-> op, err |-> err, moves |-> moves, input |-> input]

\* ---------------------------------------------------------------- deque and queue objects
\* identity of the Deque's linked sequence
DequeList == 5

\* Node objects of a deque or a queue.  No node leaves a method, so the
\* identifier of a node that was unlinked is free again.
QueueNodes == 1..MaxLen

\* Deque(): DoublyLinkedBase.__init__
NewDeque ==
    [id |-> DequeList,
     next |-> [n \in QueueNodes \cup {Header(DequeList)} |->
                 IF n = Header(DequeList) THEN Trailer(DequeList) ELSE Null],
     prev |-> [n \in QueueNodes \cup {Trailer(DequeList)} |->
                 IF n = Trailer(DequeList) THEN Header(DequeList) ELSE Null],
     data |-> [n \in QueueNodes |-> NoItem],
     deprecated |-> [n \in QueueNodes |-> FALSE],
     size |-> 0,
     err |-> NoError]

\* Queue.__init__: _head = None, _tail = None, _size = 0; next and data are
\* the fields of the _single.Node objects
NewQueue ==
    [head |-> Null, tail |-> Null, size |-> 0,
     next |-> [n \in QueueNodes |-> Null],
     data |-> [n \in QueueNodes |-> NoItem],
     err |-> NoError]

\* CircularQueue.__init__: _tail = None, _size = 0
NewCircularQueue ==
    [tail |-> Null, size |-> 0,
     next |-> [n \in QueueNodes |-> Null],
     data |-> [n \in QueueNodes |-> NoItem],
     err |-> NoError]

\* a call on a container: the class, the method, the item given, the error
\* raised and the item returned
QCall(cls, op, arg, err, ret) ==
    [cls |-> cls, op |-> op, arg |-> arg, err |-> err, ret |-> ret]

NoReference == [items |-> <<>>, enqueued |-> 0, dequeued |-> 0, emptied |-> FALSE]

\* ---------------------------------------------------------------- dynamic array objects
\* a slot of a ctypes array of py_object that nothing was stored in
NullObject == Null

\* the object None
PyNone == 0 - 1

\* DynamicArray._make_array(c): c slots, numbered from 0, all of them NULL
_make_array(c) == [k \in 0..(c - 1) |-> NullObject]

\* DynamicArray.__init__: _n = 0, _capacity = 1
NewArray == [n |-> 0, capacity |-> 1, array |-> _make_array(1), err |-> NoError]

\* ---------------------------------------------------------------- tree objects
\* identities of the LinkedBinaryTree called and of another instance
ThisTree == 1
OtherTree == 2

\* _Node objects of the tree.  A client keeps the positions it was given, so
\* no identifier is used twice.
TreeNodes == 1..MaxTree

\* Position(tree, node) of linked_binary_tree
TreePosition(t, node) == [tree |-> t, node |-> node]

\* None, where a position is expected
TreeNone == TreePosition(0, Null)

\* what a query has in place of a result when it raised
TreeRaised == TreePosition(0 - 1, Null)

\* LinkedBinaryTree.__init__: _root = None, _size = 0; element, parent,
\* left, right and deprecated are the fields of the _Node objects and alloc
\* counts the nodes constructed
NewTree ==
    [id |-> ThisTree, root |-> Null, size |-> 0,
     element |-> [n \in TreeNodes |-> NoItem],
     parent |-> [n \in TreeNodes |-> Null],
     left |-> [n \in TreeNodes |-> Null],
     right |-> [n \in TreeNodes |-> Null],
     deprecated |-> [n \in TreeNodes |-> FALSE],
     alloc |-> 0,
     err |-> NoError]

\* a call on the tree: the method, the position and the element given, the
\* error raised, the element or number returned and the position returned
TreeCall(op, p, arg, err, ret, retp) ==
    [op |-> op, p |-> p, arg |-> arg, err |-> err, ret |-> ret, retp |-> retp]

\* a call on a favourites list: class, method, argument, the error it ended
\* with and the values a top(k) generator yielded before it ended
FavCall(cls, op, arg, err, yielded) ==
    [cls |-> cls, op |-> op, arg |-> arg, err |-> err, yielded |-> yielded]

\* the call returns or raises: it becomes the last call, and the history
\* variables follow it
Return(c) ==
    /\ UNCHANGED <<favourites, others>>
    /\ last' = c
    /\ removed' = IF c.op = "remove" /\ c.err = NoError
                  THEN removed \cup {c.pnode} ELSE removed
    /\ before' = IF c.op = "insert_last"
                 THEN [set |-> TRUE, item |-> c.item,
                       size |-> LenOf(c.list), nodes |-> Forward(c.list),
                       elems |-> Elements(c.list)]
                 ELSE NoSnapshot

\* DoublyLinkedBase.__init__, and FavouritesList.__init__ for the
\* favourites instances
Init ==
    /\ next = [n \in NodeIds \cup Headers |->
                 IF n \in Headers THEN n - 1 ELSE Null]
    /\ prev = [n \in NodeIds \cup Trailers |->
                 IF n \in Trailers THEN n + 1 ELSE Null]
    /\ data = [n \in NodeIds |-> NoItem]
    /\ deprecated = [n \in NodeIds |-> FALSE]
    /\ owner = [n \in NodeIds |-> 0]
    /\ size = [l \in Lists |-> 0]
    /\ alloc = 0
    /\ last = Call("init", 0, NoPosition, NoItem, NoError, NoItem, Null)
    /\ removed = {}
    /\ before = NoSnapshot
    /\ flist = [cls \in Classes |-> EmptyList(ListOf(cls))]
    /\ fcall = FavCall("none", "init", Null, NoError, <<>>)
    /\ hits = [cls \in Classes |-> [v \in Values |-> 0]]
    /\ calls = <<>>
    /\ plist = NewList
    /\ scall = SortCall("init", NoError, 0, NewList)
    /\ deque = NewDeque
    /\ queue = NewQueue
    /\ cqueue = NewCircularQueue
    /\ qcall = QCall("none", "init", NoItem, NoError, NoItem)
    /\ reference = NoReference
    /\ array = NewArray
    /\ tree = NewTree
    /\ tcall = TreeCall("init", TreeNone, NoItem, NoError, NoItem, TreeNone)
    /\ favorites = NewFavorites
    /\ oldqueue = NewCircularQueue

\* ---------------------------------------------------------------- linked sequence
\* DoublyLinkedBase._insert: the new node is the next unused identifier
_insert(l, item, prev_node, next_node) ==
    LET new_node == alloc + 1 IN
    /\ data' = [data EXCEPT ![new_node] = item]
    /\ prev' = [prev EXCEPT ![new_node] = prev_node, ![next_node] = new_node]
    /\ next' = [next EXCEPT ![new_node] = next_node, ![prev_node] = new_node]
    /\ deprecated' = [deprecated EXCEPT ![new_node] = FALSE]
    /\ owner' = [owner EXCEPT ![new_node] = l]
    /\ size' = [size EXCEPT ![l] = size[l] + 1]
    /\ alloc' = new_node

\* the sentinel test of DoublyLinkedBase._remove
IsSentinel(l, node) == node \in {Header(l), Trailer(l)}

\* mutant of Unlink: the node is not spliced out
UnlinkForgotten(node) ==
    UNCHANGED <<next, prev>>

\* the two link assignments of DoublyLinkedBase._remove
Unlink(node) ==
    /\ next' = [next EXCEPT ![prev[node]] = next[node]]
    /\ prev' = [prev EXCEPT ![next[node]] = prev[node]]

\* DoublyLinkedBase._remove on a node that is no sentinel
_remove(l, node) ==
    /\ ~IsSentinel(l, node)
    /\ Unlink(node)
    /\ size' = [size EXCEPT ![l] = size[l] - 1]
    /\ UNCHANGED <<data, owner, alloc>>

\* DoublyLinkedBase.clear
clear(l) ==
    /\ next' = [next EXCEPT ![Header(l)] = Trailer(l)]
    /\ prev' = [prev EXCEPT ![Trailer(l)] = Header(l)]
    /\ size' = [size EXCEPT ![l] = 0]
    /\ UNCHANGED <<data, deprecated, owner, alloc>>
    /\ Return(Call("clear", l, NoPosition, NoItem, NoError, NoItem, Null))

\* ---------------------------------------------------------------- positional list
\* mutant of Validate: the owning list is not compared
ValidateFlagOnly(l, p) ==
    IF deprecated[p.node] THEN FALSE
    ELSE TRUE

\* PositionalList._validate: TRUE when the node is returned, FALSE when
\* ValueError("invalid position") is raised
Validate(l, p) ==
    IF p.list # l THEN FALSE
    ELSE IF deprecated[p.node] THEN FALSE
    ELSE TRUE

\* a call that raises ValueError out of _validate, before anything else ran
RaiseInvalid(op, l, p) ==
    /\ Return(Call(op, l, p, NoItem, ValueError, NoItem, Null))
    /\ UNCHANGED store

\* PositionalList._positional_insert
_positional_insert(op, l, p, item, prev_node, next_node) ==
    /\ _insert(l, item, prev_node, next_node)
    /\ Return(Call(op, l, p, item, NoError, NoItem, MakePosition(l, alloc + 1).node))

insert_first(l, item) ==
    _positional_insert("insert_first", l, NoPosition, item, Header(l), next[Header(l)])

insert_last(l, item) ==
    _positional_insert("insert_last", l, NoPosition, item, prev[Trailer(l)], Trailer(l))

insert_before(l, p, item) ==
    IF Validate(l, p)
    THEN _positional_insert("insert_before", l, p, item, prev[p.node], p.node)
    ELSE RaiseInvalid("insert_before", l, p)

insert_after(l, p, item) ==
    IF Validate(l, p)
    THEN _positional_insert("insert_after", l, p, item, p.node, next[p.node])
    ELSE RaiseInvalid("insert_after", l, p)

\* mutant of MarkDeprecated: the flag is not set
MarkDeprecatedForgotten(node) == deprecated

\* mutant of MarkDeprecated: the node after the removed one is flagged too
MarkDeprecatedWithNext(node) ==
    [n \in NodeIds |-> deprecated[n] \/ n = node \/ n = next[node]]

\* node.deprecated = True in PositionalList.remove
MarkDeprecated(node) == [deprecated EXCEPT ![node] = TRUE]

remove(l, p) ==
    IF Validate(l, p)
    THEN /\ deprecated' = MarkDeprecated(p.node)
         /\ _remove(l, p.node)
         /\ Return(Call("remove", l, p, NoItem, NoError, data[p.node], Null))
    ELSE RaiseInvalid("remove", l, p)

\* mutant of replace: the item is stored before the position is validated
replace_StoreFirst(l, p, item) ==
    /\ data' = [data EXCEPT ![p.node] = item]
    /\ UNCHANGED <<next, prev, deprecated, owner, size, alloc>>
    /\ IF Validate(l, p)
       THEN Return(Call("replace", l, p, item, NoError, data[p.node], Null))
       ELSE Return(Call("replace", l, p, NoItem, ValueError, NoItem, Null))

\* mutant of replace: old_item is read after the new item was stored
replace_ReadAfterStore(l, p, item) ==
    IF Validate(l, p)
    THEN /\ data' = [data EXCEPT ![p.node] = item]
         /\ UNCHANGED <<next, prev, deprecated, owner, size, alloc>>
         /\ Return(Call("replace", l, p, item, NoError, item, Null))
    ELSE RaiseInvalid("replace", l, p)

replace(l, p, item) ==
    IF Validate(l, p)
    THEN /\ data' = [data EXCEPT ![p.node] = item]
         /\ UNCHANGED <<next, prev, deprecated, owner, size, alloc>>
         /\ Return(Call("replace", l, p, item, NoError, data[p.node], Null))
    ELSE RaiseInvalid("replace", l, p)

\* the position a query returns: None (Null) when the node is an instance
\* of the sentinel class the query tests for, else a position of the node
PositionOrNone(l, node, sentinels) ==
    IF node \in sentinels THEN Null ELSE MakePosition(l, node).node

first_position(l) ==
    /\ Return(Call("first_position", l, NoPosition, NoItem, NoError, NoItem,
                    PositionOrNone(l, next[Header(l)], Trailers)))
    /\ UNCHANGED store

last_position(l) ==
    /\ Return(Call("last_position", l, NoPosition, NoItem, NoError, NoItem,
                    PositionOrNone(l, prev[Trailer(l)], Headers)))
    /\ UNCHANGED store

position_before(l, p) ==
    IF Validate(l, p)
    THEN /\ Return(Call("position_before", l, p, NoItem, NoError, NoItem,
                         PositionOrNone(l, prev[p.node], Headers)))
         /\ UNCHANGED store
    ELSE RaiseInvalid("position_before", l, p)

position_after(l, p) ==
    IF Validate(l, p)
    THEN /\ Return(Call("position_after", l, p, NoItem, NoError, NoItem,
                         PositionOrNone(l, next[p.node], Trailers)))
         /\ UNCHANGED store
    ELSE RaiseInvalid("position_after", l, p)

\* ---------------------------------------------------------------- specification
\* the calls a client can make on the lists ls, while fewer than cap Node
\* objects exist (a call that raises before constructing one is always possible)
NextOf(ls, cap) ==
    \/ \E l \in ls, item \in Items : alloc < cap /\ insert_first(l, item)
    \/ \E l \in ls, item \in Items : alloc < cap /\ insert_last(l, item)
    \/ \E l \in ls, p \in Handles, item \in Items :
          (alloc < cap \/ ~Validate(l, p)) /\ insert_before(l, p, item)
    \/ \E l \in ls, p \in Handles, item \in Items :
          (alloc < cap \/ ~Validate(l, p)) /\ insert_after(l, p, item)
    \/ \E l \in ls, p \in Handles : remove(l, p)
    \/ \E l \in ls, p \in Handles, item \in Items : replace(l, p, item)
    \/ \E l \in ls : clear(l)
    \/ \E l \in ls : first_position(l)
    \/ \E l \in ls : last_position(l)
    \/ \E l \in ls, p \in Handles : position_before(l, p)
    \/ \E l \in ls, p \in Handles : position_after(l, p)

\* one list, at most MaxNodes nodes ever constructed
Next == NextOf({1}, MaxNodes)
Spec == Init /\ [][Next]_vars

\* one list, one node more: the states in which a position that outlived a
\* clear has put trailer.prev and header.next out of step and a further
\* node is inserted
NextWide == NextOf({1}, MaxNodes + 1)
SpecWide == Init /\ [][NextWide]_vars

\* two lists drawing their nodes from the same arena
NextTwo == NextOf(Lists, MaxNodes)
SpecTwo == Init /\ [][NextTwo]_vars

\* ---------------------------------------------------------------- linked sequence, called directly
\* a call of DoublyLinkedBase._insert between two adjacent nodes
DoublyLinkedBase_insert(l, item, prev_node, next_node) ==
    /\ _insert(l, item, prev_node, next_node)
    /\ Return(Call("_insert", l, NoPosition, item, NoError, NoItem, alloc + 1))

\* mutant of DoublyLinkedBase_remove: the size is decremented before the
\* sentinel test
DoublyLinkedBase_remove_CountFirst(l, node) ==
    IF IsSentinel(l, node)
    THEN /\ size' = [size EXCEPT ![l] = size[l] - 1]
         /\ UNCHANGED <<next, prev, data, deprecated, owner, alloc>>
         /\ Return(Call("_remove", l, Position(node, l), NoItem, IndexError, NoItem, Null))
    ELSE /\ _remove(l, node)
         /\ UNCHANGED deprecated
         /\ Return(Call("_remove", l, Position(node, l), NoItem, NoError, data[node], Null))

\* a call of DoublyLinkedBase._remove: IndexError("remove sentinel node") on
\* the header or the trailer, else the node is unlinked and its item returned
DoublyLinkedBase_remove(l, node) ==
    IF IsSentinel(l, node)
    THEN /\ UNCHANGED store
         /\ Return(Call("_remove", l, Position(node, l), NoItem, IndexError, NoItem, Null))
    ELSE /\ _remove(l, node)
         /\ UNCHANGED deprecated
         /\ Return(Call("_remove", l, Position(node, l), NoItem, NoError, data[node], Null))

\* the calls a client of the linked sequence can make: insertions between a
\* node of the sequence (or the header) and its successor, removal of a
\* sentinel or of a node of the sequence, clear
NextBase ==
    \/ \E item \in Items, prev_node \in {Header(1)} \cup Range(Forward(1)) :
          alloc < MaxNodes /\ DoublyLinkedBase_insert(1, item, prev_node, next[prev_node])
    \/ \E node \in {Header(1), Trailer(1)} \cup Range(Forward(1)) :
          DoublyLinkedBase_remove(1, node)
    \/ clear(1)
SpecBase == Init /\ [][NextBase]_vars

\* ---------------------------------------------------------------- positional list as a value
\* The favourites classes run several PositionalList methods inside one call
\* of their own.  Here a list is a value h (links, items, flags, size) and each
\* method a function from list values to list values; h.err is the exception
\* in flight, under which the remaining statements do not run.
positional == <<next, prev, data, deprecated, owner, size, alloc, last, removed, before>>

None == NoPosition

\* what a query has in place of a result when _validate raised
Raised == Position(Null, 0 - 1)

\* DoublyLinkedBase.__iter__ on the list value h, as the nodes met
RECURSIVE ListWalk(_, _, _)
ListWalk(h, node, fuel) ==
    IF node = Trailer(h.id) \/ fuel = 0 THEN <<>>
    ELSE <<node>> \o ListWalk(h, h.next[node], fuel - 1)

ListNodes(h) == ListWalk(h, h.next[Header(h.id)], Cardinality(DOMAIN h.data))

\* DoublyLinkedBase.__iter__: the items front to back
ListItems(h) == [i \in 1..Len(ListNodes(h)) |-> h.data[ListNodes(h)[i]]]

\* DoublyLinkedBase.__len__
ListLen(h) == h.size

\* the identifier Node(...) gets: the next unused one in a list that counts
\* the nodes constructed, else the smallest one no linked node has
NewNode(h) ==
    IF "alloc" \in DOMAIN h THEN h.alloc + 1
    ELSE CHOOSE n \in DOMAIN h.data \ Range(ListNodes(h)) :
             \A m \in DOMAIN h.data \ Range(ListNodes(h)) : n <= m

\* Node(...): one more node has been constructed
Constructed(h) ==
    IF "alloc" \in DOMAIN h THEN [h EXCEPT !.alloc = @ + 1] ELSE h

\* the identifiers of unlinked nodes are free again when a favourites method
\* returns; the exception, if any, has been reported
Collect(h) ==
    LET linked == Range(ListNodes(h)) \cup {Header(h.id), Trailer(h.id)} IN
    [h EXCEPT !.next = [n \in DOMAIN h.next |-> IF n \in linked THEN h.next[n] ELSE Null],
              !.prev = [n \in DOMAIN h.prev |-> IF n \in linked THEN h.prev[n] ELSE Null],
              !.data = [n \in FavNodes |-> IF n \in linked THEN h.data[n] ELSE NoEntry],
              !.deprecated = [n \in FavNodes |-> n \in linked /\ h.deprecated[n]],
              !.err = NoError]

Raise(h, error) == IF h.err # NoError THEN h ELSE [h EXCEPT !.err = error]

\* DoublyLinkedBase._insert
DLB_insert(h, item, prev_node, next_node) ==
    LET new_node == NewNode(h) IN
    IF h.err # NoError THEN h
    ELSE Constructed(
         [h EXCEPT !.data[new_node] = item,
                   !.prev = [h.prev EXCEPT ![new_node] = prev_node, ![next_node] = new_node],
                   !.next = [h.next EXCEPT ![new_node] = next_node, ![prev_node] = new_node],
                   !.deprecated[new_node] = FALSE,
                   !.size = h.size + 1])

\* DoublyLinkedBase._remove
DLB_remove(h, node) ==
    IF h.err # NoError THEN h
    ELSE IF node \in {Header(h.id), Trailer(h.id)} THEN Raise(h, IndexError)
    ELSE [h EXCEPT !.next = [h.next EXCEPT ![h.prev[node]] = h.next[node]],
                   !.prev = [h.prev EXCEPT ![h.next[node]] = h.prev[node]],
                   !.size = h.size - 1]

\* DoublyLinkedBase.clear
DLB_clear(h) ==
    IF h.err # NoError THEN h
    ELSE [h EXCEPT !.next[Header(h.id)] = Trailer(h.id),
                   !.prev[Trailer(h.id)] = Header(h.id),
                   !.size = 0]

\* PositionalList._validate: TRUE when the node is returned
PL_validate(h, position) ==
    IF position.list # h.id THEN FALSE
    ELSE IF h.deprecated[position.node] THEN FALSE
    ELSE TRUE

\* PositionalList._make_position
PL_make_position(h, node) == Position(node, h.id)

\* PositionalList.insert_first; the position returned is that of NewNode(h)
PL_insert_first(h, item) ==
    DLB_insert(h, item, Header(h.id), h.next[Header(h.id)])

\* PositionalList.insert_last; the position returned is that of NewNode(h)
PL_insert_last(h, item) ==
    DLB_insert(h, item, h.prev[Trailer(h.id)], Trailer(h.id))

\* PositionalList.insert_before
PL_insert_before(h, position, item) ==
    IF h.err # NoError THEN h
    ELSE IF PL_validate(h, position)
    THEN DLB_insert(h, item, h.prev[position.node], position.node)
    ELSE Raise(h, ValueError)

\* PositionalList.insert_after
PL_insert_after(h, position, item) ==
    IF h.err # NoError THEN h
    ELSE IF PL_validate(h, position)
    THEN DLB_insert(h, item, position.node, h.next[position.node])
    ELSE Raise(h, ValueError)

\* mutant of PL_remove: the node removed is not marked deprecated
PL_remove_KeepsValid(h, position) ==
    IF h.err # NoError THEN h
    ELSE IF PL_validate(h, position)
    THEN DLB_remove(h, position.node)
    ELSE Raise(h, ValueError)

\* PositionalList.remove
PL_remove(h, position) ==
    IF h.err # NoError THEN h
    ELSE IF PL_validate(h, position)
    THEN DLB_remove([h EXCEPT !.deprecated[position.node] = TRUE], position.node)
    ELSE Raise(h, ValueError)

\* PositionalList.first_position
PL_first_position(h) ==
    IF h.next[Header(h.id)] = Trailer(h.id) THEN None
    ELSE PL_make_position(h, h.next[Header(h.id)])

\* PositionalList.position_before
PL_position_before(h, position) ==
    IF ~PL_validate(h, position) THEN Raised
    ELSE IF h.prev[position.node] = Header(h.id) THEN None
    ELSE PL_make_position(h, h.prev[position.node])

\* PositionalList.position_after
PL_position_after(h, position) ==
    IF ~PL_validate(h, position) THEN Raised
    ELSE IF h.next[position.node] = Trailer(h.id) THEN None
    ELSE PL_make_position(h, h.next[position.node])

\* Position.item
ItemAt(h, position) == h.data[position.node]

\* ---------------------------------------------------------------- favourites
\* FavouritesList._find_position: the loop from the position reached
RECURSIVE FindFrom(_, _, _, _)
FindFrom(h, position, item, fuel) ==
    IF position # None /\ position # Raised /\ fuel > 0 /\ ItemAt(h, position).value # item
    THEN FindFrom(h, PL_position_after(h, position), item, fuel - 1)
    ELSE position

FavouritesList_find_position(h, item) ==
    FindFrom(h, PL_first_position(h), item, Cardinality(FavNodes))

\* mutant of WalkUp: the walker climbs one entry at most
WalkUpOneStep(h, walker, count, fuel) ==
    IF /\ ~PositionEq(walker, PL_first_position(h))
       /\ ItemAt(h, PL_position_before(h, walker)).count < count
    THEN PL_position_before(h, walker)
    ELSE walker

\* mutant of WalkUp: the walker also passes an equal counter
RECURSIVE WalkUpPastEqual(_, _, _, _)
WalkUpPastEqual(h, walker, count, fuel) ==
    IF /\ fuel > 0
       /\ ~PositionEq(walker, PL_first_position(h))
       /\ ItemAt(h, PL_position_before(h, walker)).count <= count
    THEN WalkUpPastEqual(h, PL_position_before(h, walker), count, fuel - 1)
    ELSE walker

\* FavouritesList._move_up: the loop that walks towards the front
RECURSIVE WalkUp(_, _, _, _)
WalkUp(h, walker, count, fuel) ==
    IF /\ fuel > 0
       /\ ~PositionEq(walker, PL_first_position(h))
       /\ ItemAt(h, PL_position_before(h, walker)).count < count
    THEN WalkUp(h, PL_position_before(h, walker), count, fuel - 1)
    ELSE walker

\* FavouritesList._move_up
FavouritesList_move_up(h, position) ==
    LET count == ItemAt(h, position).count
        walker == WalkUp(h, position, count, Cardinality(FavNodes))
    IN PL_remove(PL_insert_before(h, walker, ItemAt(h, position)), position)

\* FavouritesListMTF._move_up
FavouritesListMTF_move_up(h, position) ==
    PL_remove(PL_insert_first(h, ItemAt(h, position)), position)

\* self._move_up(position): the method of the instance's class
_move_up(cls, h, position) ==
    IF cls = MoveToFront THEN FavouritesListMTF_move_up(h, position)
    ELSE FavouritesList_move_up(h, position)

\* position.item.count += 1
CountUp(h, position) == [h EXCEPT !.data[position.node].count = @ + 1]

\* FavouritesList.access
FavouritesList_access(cls, h, item) ==
    LET found == FavouritesList_find_position(h, item)
        position == IF found = None THEN PL_make_position(h, NewNode(h)) ELSE found
        listed == IF found = None THEN PL_insert_last(h, _Item(item)) ELSE h
    IN IF found = Raised THEN Raise(h, ValueError)
       ELSE _move_up(cls, CountUp(listed, position), position)

\* FavouritesList.remove
FavouritesList_remove(h, item) ==
    LET position == FavouritesList_find_position(h, item) IN
    IF position = Raised THEN Raise(h, ValueError)
    ELSE IF position # None THEN PL_remove(h, position)
    ELSE h

\* what consuming a generator gives: the values yielded and the exception, if
\* any, that ended it
Yielded(values, error) == [yielded |-> values, err |-> error]

\* mutant of TopFrom: the position advances before the value is yielded
RECURSIVE TopFromNext(_, _, _)
TopFromNext(h, position, k) ==
    IF k = 0 THEN <<>>
    ELSE IF PL_position_after(h, position) = None THEN <<ItemAt(h, position).value>>
    ELSE <<ItemAt(h, PL_position_after(h, position)).value>>
         \o TopFromNext(h, PL_position_after(h, position), k - 1)

\* FavouritesList.top: the for loop, from the position reached
RECURSIVE TopFrom(_, _, _)
TopFrom(h, position, k) ==
    IF k = 0 THEN <<>>
    ELSE <<ItemAt(h, position).value>> \o TopFrom(h, PL_position_after(h, position), k - 1)

\* FavouritesList.top, consumed to its end
FavouritesList_top(h, k) ==
    IF k > ListLen(h) THEN Yielded(<<>>, IndexError)
    ELSE Yielded(TopFrom(h, PL_first_position(h), k), NoError)

\* self_clone = PositionalList(); for item in self._list:
\* self_clone.insert_last(item)
RECURSIVE CloneFrom(_, _)
CloneFrom(self_clone, items) ==
    IF items = <<>> THEN self_clone
    ELSE CloneFrom(PL_insert_last(self_clone, Head(items)), Tail(items))

\* FavouritesListMTF.top: the while loop, from the walker reached
RECURSIVE HighestFrom(_, _, _, _)
HighestFrom(self_clone, highest, walker, fuel) ==
    IF walker = None \/ walker = Raised \/ fuel = 0 THEN highest
    ELSE HighestFrom(self_clone,
                     IF ItemAt(self_clone, walker).count > ItemAt(self_clone, highest).count
                     THEN walker ELSE highest,
                     PL_position_after(self_clone, walker), fuel - 1)

\* FavouritesListMTF.top: the for loop with k rounds to go
RECURSIVE TopRounds(_, _)
TopRounds(self_clone, k) ==
    IF k = 0 THEN Yielded(<<>>, NoError)
    ELSE LET first == PL_first_position(self_clone) IN
         IF first = None THEN Yielded(<<>>, IndexError)
         ELSE LET highest == HighestFrom(self_clone, first,
                                         PL_position_after(self_clone, first),
                                         Cardinality(FavNodes))
                  rest == TopRounds(PL_remove(self_clone, highest), k - 1)
              IN Yielded(<<ItemAt(self_clone, highest).value>> \o rest.yielded, rest.err)

\* FavouritesListMTF.top, consumed to its end
FavouritesListMTF_top(h, k) ==
    TopRounds(CloneFrom(EmptyList(CloneList), ListItems(h)), k)

\* self.top(k): the method of the instance's class
top(cls, h, k) ==
    IF cls = MoveToFront THEN FavouritesListMTF_top(h, k)
    ELSE FavouritesList_top(h, k)

\* class FavouritesList declares no Generic base and no __class_getitem__
FavouritesListSubscriptable == FALSE

\* the class statements: favourites_mtf.py names its base FavouritesList[_T];
\* when that subscription raises TypeError the import of the module stops
\* there and no class FavouritesListMTF comes to exist
ClassCreated(cls) ==
    IF cls = MoveToFront THEN FavouritesListSubscriptable
    ELSE TRUE

\* a program's use of a class that was not created ends with the TypeError
\* of the class statement
Unusable(cls, op, arg) ==
    /\ fcall' = FavCall(cls, op, arg, TypeError, <<>>)
    /\ UNCHANGED <<flist, hits>>

\* the count of the entry for item, 0 when there is none
CountOf(h, item) ==
    LET position == FavouritesList_find_position(h, item) IN
    IF position = None THEN 0 ELSE ItemAt(h, position).count

\* a call of access(item)
favourites_access(cls, item) ==
    /\ UNCHANGED <<positional, calls, others>>
    /\ IF ClassCreated(cls)
       THEN LET h == FavouritesList_access(cls, flist[cls], item) IN
            /\ flist' = [flist EXCEPT ![cls] = Collect(h)]
            /\ fcall' = FavCall(cls, "access", item, h.err, <<>>)
            /\ hits' = [hits EXCEPT ![cls][item] = @ + 1]
       ELSE Unusable(cls, "access", item)

\* a call of remove(item)
favourites_remove(cls, item) ==
    /\ UNCHANGED <<positional, calls, others>>
    /\ IF ClassCreated(cls)
       THEN LET h == FavouritesList_remove(flist[cls], item) IN
            /\ flist' = [flist EXCEPT ![cls] = Collect(h)]
            /\ fcall' = FavCall(cls, "remove", item, h.err, <<>>)
            /\ hits' = [hits EXCEPT ![cls][item] = 0]
       ELSE Unusable(cls, "remove", item)

\* a loop over top(k) that runs until the generator ends
favourites_top(cls, k) ==
    /\ UNCHANGED <<positional, calls, others>>
    /\ IF ClassCreated(cls)
       THEN LET out == top(cls, flist[cls], k) IN
            /\ fcall' = FavCall(cls, "top", k, out.err, out.yielded)
            /\ UNCHANGED <<flist, hits>>
       ELSE Unusable(cls, "top", k)

\* the calls a client can make on an instance of each class
NextFav ==
    \/ \E cls \in Classes, item \in Values :
          CountOf(flist[cls], item) < MaxCount /\ favourites_access(cls, item)
    \/ \E cls \in Classes, item \in Values : favourites_remove(cls, item)
    \/ \E cls \in Classes, k \in 0..(Cardinality(Values) + 1) : favourites_top(cls, k)
SpecFav == Init /\ [][NextFav]_vars

\* the entries of the instance of cls, front to back
Entries(cls) == ListItems(flist[cls])

\* what a call does to the list of the instance of cls: nothing when the
\* class was not created
AfterCall(cls, h) == IF ClassCreated(cls) THEN Collect(h) ELSE flist[cls]

\* the error the same call ends with on the two instances, TypeError first
ErrorOfBoth(errs) ==
    IF \E cls \in Classes : ~ClassCreated(cls) THEN TypeError
    ELSE IF \E cls \in Classes : errs[cls] # NoError
    THEN errs[CHOOSE cls \in Classes : errs[cls] # NoError]
    ELSE NoError

\* access(item) called on an instance of each class
both_access(item) ==
    LET h == [cls \in Classes |-> FavouritesList_access(cls, flist[cls], item)] IN
    /\ UNCHANGED <<positional, calls, others>>
    /\ flist' = [cls \in Classes |-> AfterCall(cls, h[cls])]
    /\ fcall' = FavCall("both", "access", item,
                        ErrorOfBoth([cls \in Classes |-> h[cls].err]), <<>>)
    /\ hits' = [cls \in Classes |->
                  IF ClassCreated(cls) THEN [hits[cls] EXCEPT ![item] = @ + 1]
                  ELSE hits[cls]]

\* remove(item) called on an instance of each class
both_remove(item) ==
    LET h == [cls \in Classes |-> FavouritesList_remove(flist[cls], item)] IN
    /\ UNCHANGED <<positional, calls, others>>
    /\ flist' = [cls \in Classes |-> AfterCall(cls, h[cls])]
    /\ fcall' = FavCall("both", "remove", item,
                        ErrorOfBoth([cls \in Classes |-> h[cls].err]), <<>>)
    /\ hits' = [cls \in Classes |->
                  IF ClassCreated(cls) THEN [hits[cls] EXCEPT ![item] = 0]
                  ELSE hits[cls]]

\* one sequence of access and remove calls applied to an instance of each
\* class, with top(k) consumed on either instance in between
NextBoth ==
    \/ \E item \in Values :
          /\ \A cls \in Classes : CountOf(flist[cls], item) < MaxCount
          /\ both_access(item)
    \/ \E item \in Values : both_remove(item)
    \/ \E cls \in Classes, k \in 0..(Cardinality(Values) + 1) : favourites_top(cls, k)
SpecBoth == Init /\ [][NextBoth]_vars

\* a call of access(item) or remove(item) in a run that keeps its calls
scripted_call(cls, op, item) ==
    LET h == IF op = "access" THEN FavouritesList_access(cls, flist[cls], item)
             ELSE FavouritesList_remove(flist[cls], item)
    IN /\ UNCHANGED <<positional, others>>
       /\ calls' = Append(calls, [cls |-> cls, op |-> op, arg |-> item])
       /\ IF ClassCreated(cls)
          THEN /\ flist' = [flist EXCEPT ![cls] = Collect(h)]
               /\ fcall' = FavCall(cls, op, item, h.err, <<>>)
               /\ hits' = [hits EXCEPT ![cls][item] = IF op = "access" THEN @ + 1 ELSE 0]
          ELSE Unusable(cls, op, item)

\* every sequence of at most MaxCalls access and remove calls on one new
\* instance of either class
NextScript ==
    \E cls \in Classes, op \in {"access", "remove"}, item \in Values :
        /\ Len(calls) < MaxCalls
        /\ \A i \in 1..Len(calls) : calls[i].cls = cls
        /\ scripted_call(cls, op, item)
SpecScript == Init /\ [][NextScript]_vars

\* ---------------------------------------------------------------- older favourites
\* doubly_linked.DoublyLinkedBase._insert_between
DoublyLinkedBase_insert_between(h, element, prev_node, next_node) ==
    LET new_node == NewNode(h) IN
    IF h.err # NoError THEN h
    ELSE IF ~NodeLinksPositional THEN Raise(h, TypeError)
    ELSE [h EXCEPT !.data[new_node] = element,
                   !.prev = [h.prev EXCEPT ![new_node] = prev_node, ![next_node] = new_node],
                   !.next = [h.next EXCEPT ![new_node] = next_node, ![prev_node] = new_node],
                   !.size = h.size + 1]

\* doubly_linked.DoublyLinkedBase._delete_node; return node.element comes
\* after the node is unlinked
DoublyLinkedBase_delete_node(h, node) ==
    IF h.err # NoError THEN h
    ELSE IF node \in {Header(h.id), Trailer(h.id)} THEN Raise(h, IndexError)
    ELSE LET unlinked == [h EXCEPT !.next = [h.next EXCEPT ![h.prev[node]] = h.next[node]],
                                   !.prev = [h.prev EXCEPT ![h.next[node]] = h.prev[node]],
                                   !.size = h.size - 1]
         IN IF ~NodeHasElement THEN Raise(unlinked, AttributeError) ELSE unlinked

\* positional_list.PositionalList._validate: TRUE when the node is returned
PositionalList_validate(h, position) ==
    IF position = DeprecatedPosition THEN FALSE
    ELSE IF position.list # h.id THEN FALSE
    ELSE TRUE

\* positional_list.PositionalList._make_position
PositionalList_make_position(h, node) ==
    IF node \in {Header(h.id), Trailer(h.id)} THEN None
    ELSE Position(node, h.id)

\* positional_list.PositionalList.first
PositionalList_first(h) == PositionalList_make_position(h, h.next[Header(h.id)])

\* positional_list.PositionalList.before
PositionalList_before(h, position) ==
    IF ~PositionalList_validate(h, position) THEN Raised
    ELSE PositionalList_make_position(h, h.prev[position.node])

\* positional_list.PositionalList.after
PositionalList_after(h, position) ==
    IF ~PositionalList_validate(h, position) THEN Raised
    ELSE PositionalList_make_position(h, h.next[position.node])

\* positional_list.PositionalList.add_last; the position returned is that of
\* NewNode(h)
PositionalList_add_last(h, element) ==
    DoublyLinkedBase_insert_between(h, element, h.prev[Trailer(h.id)], Trailer(h.id))

\* positional_list.PositionalList.add_before
PositionalList_add_before(h, position, element) ==
    IF h.err # NoError THEN h
    ELSE IF PositionalList_validate(h, position)
    THEN DoublyLinkedBase_insert_between(h, element, h.prev[position.node], position.node)
    ELSE Raise(h, ValueError)

\* positional_list.PositionalList.delete, the list it leaves; the Position
\* object it was given is DeprecatedPosition afterwards
PositionalList_delete(h, position) ==
    IF h.err # NoError THEN h
    ELSE IF PositionalList_validate(h, position)
    THEN DoublyLinkedBase_delete_node(h, position.node)
    ELSE Raise(h, ValueError)

\* favorites_list.FavoritesList._find_position: the loop from the position
\* reached; walk.element raises when Node has no element
RECURSIVE FavoritesFindFrom(_, _, _, _)
FavoritesFindFrom(h, walk, element, fuel) ==
    IF walk = None \/ walk = Raised \/ fuel = 0 THEN walk
    ELSE IF ~NodeHasElement THEN Raised
    ELSE IF h.data[walk.node].value # element
    THEN FavoritesFindFrom(h, PositionalList_after(h, walk), element, fuel - 1)
    ELSE walk

\* favorites_list.FavoritesList._find_position
FavoritesList_find_position(h, element) ==
    FavoritesFindFrom(h, PositionalList_first(h), element, Cardinality(FavNodes))

\* favorites_list.FavoritesList._move_up: the loop that walks towards the
\* front
RECURSIVE FavoritesWalkUp(_, _, _, _)
FavoritesWalkUp(h, walker, count, fuel) ==
    IF /\ fuel > 0
       /\ walker # PositionalList_first(h)
       /\ h.data[PositionalList_before(h, walker).node].count < count
    THEN FavoritesWalkUp(h, PositionalList_before(h, walker), count, fuel - 1)
    ELSE walker

\* favorites_list.FavoritesList._move_up.  walker is the Position object
\* position itself when the loop has not run, and delete(position)
\* deprecates that object before add_before(walker, ...) validates it
FavoritesList_move_up(h, position) ==
    IF h.err # NoError THEN h
    ELSE IF position = PositionalList_first(h) THEN h
    ELSE LET count == h.data[position.node].count
             walker == FavoritesWalkUp(h, position, count, Cardinality(FavNodes))
             node == h.data[position.node]
             deleted == PositionalList_delete(h, position)
             walker_after == IF walker = position THEN DeprecatedPosition ELSE walker
         IN PositionalList_add_before(deleted, walker_after, node)

\* favorites_list.FavoritesList.access
FavoritesList_access(h, element) ==
    LET found == FavoritesList_find_position(h, element)
        position == IF found = None THEN Position(NewNode(h), h.id) ELSE found
        listed == IF found # None THEN h
                  ELSE IF ~ItemHasValue THEN Raise(h, AttributeError)
                  ELSE PositionalList_add_last(h, _Item(element))
        counted == IF listed.err # NoError THEN listed
                   ELSE IF ~NodeHasElement THEN Raise(listed, AttributeError)
                   ELSE [listed EXCEPT !.data[position.node].count = @ + 1]
    IN IF found = Raised THEN Raise(h, AttributeError)
       ELSE FavoritesList_move_up(counted, position)

\* favorites_list.FavoritesList.remove
FavoritesList_remove(h, element) ==
    LET position == FavoritesList_find_position(h, element) IN
    IF position = Raised THEN Raise(h, AttributeError)
    ELSE IF position # None THEN PositionalList_delete(h, position)
    ELSE h

\* the nodes no link leads to any more are gone when a method returns; the
\* exception, if any, has been reported
Forget(h) ==
    LET linked == Range(ListNodes(h)) \cup {Header(h.id), Trailer(h.id)} IN
    [h EXCEPT !.next = [n \in DOMAIN h.next |-> IF n \in linked THEN h.next[n] ELSE Null],
              !.prev = [n \in DOMAIN h.prev |-> IF n \in linked THEN h.prev[n] ELSE Null],
              !.data = [n \in DOMAIN h.data |-> IF n \in linked THEN h.data[n] ELSE NoEntry],
              !.err = NoError]

\* a statement lst.<method>(element) of a client that began with
\* lst = FavoritesList(): the constructor raises TypeError when Node() does,
\* and the name lst is never bound
favorites_call(op, element, h) ==
    /\ UNCHANGED <<positional, flist, hits, calls, sorting, containers, array, tree, tcall,
                   oldqueue>>
    /\ IF NodeDataOptional
       THEN /\ favorites' = Forget(h)
            /\ fcall' = FavCall(Favorites, op, element, h.err, <<>>)
       ELSE /\ fcall' = FavCall(Favorites, op, element, TypeError, <<>>)
            /\ UNCHANGED favorites

\* the entries of the older list, front to back
FavoritesEntries == ListItems(favorites)

\* the calls a client can make on the older list, next to those on the
\* lists of favourites.py
NextFavorites ==
    \/ \E element \in Values :
          /\ \A i \in 1..Len(FavoritesEntries) :
                FavoritesEntries[i].value = element => FavoritesEntries[i].count < MaxCount
          /\ favorites_call("access", element, FavoritesList_access(favorites, element))
    \/ \E element \in Values :
          favorites_call("remove", element, FavoritesList_remove(favorites, element))
    \/ NextFav
SpecFavorites == Init /\ [][NextFavorites]_vars

\* ---------------------------------------------------------------- insertion sort
\* what the sort ends with when a loop has not ended within the steps any
\* list of SortNodes nodes allows: the call does not return
Diverges == "diverges"

\* Position returned in place of a walker when the inner loop has not ended
Lost == Position(Null, 0 - 2)

\* mutant of WalkerLoop: the walker stays at the marker
WalkerLoopStays(h, walker, pivot, fuel) == walker

\* mutant of WalkerLoop: the walker also passes an item equal to the pivot's
RECURSIVE WalkerLoopPastEqual(_, _, _, _)
WalkerLoopPastEqual(h, walker, pivot, fuel) ==
    LET before_walker == PL_position_before(h, walker) IN
    IF before_walker = Raised THEN Raised
    ELSE IF before_walker # None /\ ItemAt(h, before_walker).key >= ItemAt(h, pivot).key
    THEN IF fuel = 0 THEN Lost
         ELSE WalkerLoopPastEqual(h, before_walker, pivot, fuel - 1)
    ELSE walker

\* insertion_sort, the inner loop: the walker moves towards the front while
\* the item before it is greater than the pivot's
RECURSIVE WalkerLoop(_, _, _, _)
WalkerLoop(h, walker, pivot, fuel) ==
    LET before_walker == PL_position_before(h, walker) IN
    IF before_walker = Raised THEN Raised
    ELSE IF before_walker # None /\ ItemAt(h, before_walker).key > ItemAt(h, pivot).key
    THEN IF fuel = 0 THEN Lost
         ELSE WalkerLoop(h, before_walker, pivot, fuel - 1)
    ELSE walker

\* the result of a run of the sort: the list and the number of pivots moved
SortRun(h, moves) == [list |-> h, moves |-> moves]

\* mutant of SortLoop: a pivot equal to the marker's item is moved as well
RECURSIVE SortLoopStrict(_, _, _, _)
SortLoopStrict(h, marker, moves, fuel) ==
    LET pivot == PL_position_after(h, marker) IN
    IF h.err # NoError THEN SortRun(h, moves)
    ELSE IF pivot = Raised THEN SortRun(Raise(h, ValueError), moves)
    ELSE IF pivot = None THEN SortRun(h, moves)
    ELSE IF fuel = 0 THEN SortRun(Raise(h, Diverges), moves)
    ELSE IF ItemAt(h, marker).key < ItemAt(h, pivot).key
    THEN SortLoopStrict(h, pivot, moves, fuel - 1)
    ELSE LET walker == WalkerLoop(h, marker, pivot, Cardinality(SortNodes)) IN
         IF walker = Raised THEN SortRun(Raise(h, ValueError), moves)
         ELSE IF walker = Lost THEN SortRun(Raise(h, Diverges), moves)
         ELSE SortLoopStrict(PL_remove(PL_insert_before(h, walker, ItemAt(h, pivot)), pivot),
                             marker, moves + 1, fuel - 1)

\* mutant of SortLoop: the pivot that was moved becomes the marker
RECURSIVE SortLoopFollowsPivot(_, _, _, _)
SortLoopFollowsPivot(h, marker, moves, fuel) ==
    LET pivot == PL_position_after(h, marker) IN
    IF h.err # NoError THEN SortRun(h, moves)
    ELSE IF pivot = Raised THEN SortRun(Raise(h, ValueError), moves)
    ELSE IF pivot = None THEN SortRun(h, moves)
    ELSE IF fuel = 0 THEN SortRun(Raise(h, Diverges), moves)
    ELSE IF ItemAt(h, marker).key <= ItemAt(h, pivot).key
    THEN SortLoopFollowsPivot(h, pivot, moves, fuel - 1)
    ELSE LET walker == WalkerLoop(h, marker, pivot, Cardinality(SortNodes)) IN
         IF walker = Raised THEN SortRun(Raise(h, ValueError), moves)
         ELSE IF walker = Lost THEN SortRun(Raise(h, Diverges), moves)
         ELSE SortLoopFollowsPivot(
                  PL_remove(PL_insert_before(h, walker, ItemAt(h, pivot)), pivot),
                  pivot, moves + 1, fuel - 1)

\* insertion_sort, the outer loop from the marker reached: the pivot is the
\* position after the marker; it becomes the marker when it is not smaller,
\* else its item is inserted before the walker and the pivot removed
RECURSIVE SortLoop(_, _, _, _)
SortLoop(h, marker, moves, fuel) ==
    LET pivot == PL_position_after(h, marker) IN
    IF h.err # NoError THEN SortRun(h, moves)
    ELSE IF pivot = Raised THEN SortRun(Raise(h, ValueError), moves)
    ELSE IF pivot = None THEN SortRun(h, moves)
    ELSE IF fuel = 0 THEN SortRun(Raise(h, Diverges), moves)
    ELSE IF ItemAt(h, marker).key <= ItemAt(h, pivot).key
    THEN SortLoop(h, pivot, moves, fuel - 1)
    ELSE LET walker == WalkerLoop(h, marker, pivot, Cardinality(SortNodes)) IN
         IF walker = Raised THEN SortRun(Raise(h, ValueError), moves)
         ELSE IF walker = Lost THEN SortRun(Raise(h, Diverges), moves)
         ELSE SortLoop(PL_remove(PL_insert_before(h, walker, ItemAt(h, pivot)), pivot),
                       marker, moves + 1, fuel - 1)

\* insertion_sort(lst) on the list value h
insertion_sort_run(h) ==
    LET marker == PL_first_position(h) IN
    IF marker = None THEN SortRun(h, 0)
    ELSE SortLoop(h, marker, 0, 2 * Cardinality(SortNodes))

\* the positions the client has been given: one for every node constructed
SortHandles == {PL_make_position(plist, n) : n \in 1..plist.alloc}

\* a call on the list ends: the exception, if any, has been reported
SortReturn(op, h, moves, input) ==
    /\ plist' = [h EXCEPT !.err = NoError]
    /\ scall' = SortCall(op, h.err, moves, input)
    /\ UNCHANGED <<positional, favourites, containers, later>>

\* the client's calls of lst.insert_first, lst.insert_last, lst.insert_before,
\* lst.insert_after, lst.remove and lst.clear
lst_insert_first(key) ==
    SortReturn("insert_first", PL_insert_first(plist, SortItem(key, NewNode(plist))), 0, NewList)

lst_insert_last(key) ==
    SortReturn("insert_last", PL_insert_last(plist, SortItem(key, NewNode(plist))), 0, NewList)

lst_insert_before(position, key) ==
    SortReturn("insert_before",
               PL_insert_before(plist, position, SortItem(key, NewNode(plist))), 0, NewList)

lst_insert_after(position, key) ==
    SortReturn("insert_after",
               PL_insert_after(plist, position, SortItem(key, NewNode(plist))), 0, NewList)

lst_remove(position) ==
    SortReturn("remove", PL_remove(plist, position), 0, NewList)

lst_clear ==
    SortReturn("clear", DLB_clear(plist), 0, NewList)

\* a call of insertion_sort(lst)
insertion_sort ==
    LET run == insertion_sort_run(plist) IN
    SortReturn("insertion_sort", run.list, run.moves, plist)

\* the client builds a list of at most MaxSort nodes, with every call the
\* list offers, and sorts it whenever it likes
NextSort ==
    \/ \E key \in Keys : plist.alloc < MaxSort /\ lst_insert_first(key)
    \/ \E key \in Keys : plist.alloc < MaxSort /\ lst_insert_last(key)
    \/ \E position \in SortHandles, key \in Keys :
          /\ plist.alloc < MaxSort \/ ~PL_validate(plist, position)
          /\ lst_insert_before(position, key)
    \/ \E position \in SortHandles, key \in Keys :
          /\ plist.alloc < MaxSort \/ ~PL_validate(plist, position)
          /\ lst_insert_after(position, key)
    \/ \E position \in SortHandles : lst_remove(position)
    \/ lst_clear
    \/ insertion_sort
SpecSort == Init /\ [][NextSort]_vars

\* ---------------------------------------------------------------- deque
\* what a method ends with: the container as it leaves it and the item returned
Outcome(container, ret) == [container |-> container, ret |-> ret]

\* the nodes no link leads to any more are gone when a method returns: their
\* identifiers are free again; the exception, if any, has been reported
Release(h) ==
    LET linked == Range(ListNodes(h)) \cup {Header(h.id), Trailer(h.id)} IN
    [h EXCEPT !.next = [n \in DOMAIN h.next |-> IF n \in linked THEN h.next[n] ELSE Null],
              !.prev = [n \in DOMAIN h.prev |-> IF n \in linked THEN h.prev[n] ELSE Null],
              !.data = [n \in DOMAIN h.data |-> IF n \in linked THEN h.data[n] ELSE NoItem],
              !.err = NoError]

\* Deque.insert_first
Deque_insert_first(h, item) ==
    Outcome(DLB_insert(h, item, Header(h.id), h.next[Header(h.id)]), NoItem)

\* Deque.insert_last
Deque_insert_last(h, item) ==
    Outcome(DLB_insert(h, item, h.prev[Trailer(h.id)], Trailer(h.id)), NoItem)

\* Deque.remove_first: IndexError("remove from empty deque") when the node
\* after the header is the trailer
Deque_remove_first(h) ==
    LET head == h.next[Header(h.id)] IN
    IF head = Trailer(h.id) THEN Outcome(Raise(h, IndexError), NoItem)
    ELSE Outcome(DLB_remove(h, head), h.data[head])

\* mutant of Deque_remove_last: the node after the header is removed
Deque_remove_last_AtFront(h) ==
    LET tail == h.next[Header(h.id)] IN
    IF tail = Trailer(h.id) THEN Outcome(Raise(h, IndexError), NoItem)
    ELSE Outcome(DLB_remove(h, tail), h.data[tail])

\* Deque.remove_last: IndexError("remove from empty deque") when the node
\* before the trailer is the header
Deque_remove_last(h) ==
    LET tail == h.prev[Trailer(h.id)] IN
    IF tail = Header(h.id) THEN Outcome(Raise(h, IndexError), NoItem)
    ELSE Outcome(DLB_remove(h, tail), h.data[tail])

\* Deque.peek_first: IndexError("peek from empty deque") on the empty deque
Deque_peek_first(h) ==
    LET head == h.next[Header(h.id)] IN
    IF head = Trailer(h.id) THEN Outcome(Raise(h, IndexError), NoItem)
    ELSE Outcome(h, h.data[head])

\* Deque.peek_last
Deque_peek_last(h) ==
    LET tail == h.prev[Trailer(h.id)] IN
    IF tail = Header(h.id) THEN Outcome(Raise(h, IndexError), NoItem)
    ELSE Outcome(h, h.data[tail])

\* DoublyLinkedBase.clear, which Deque inherits
Deque_clear(h) == Outcome(DLB_clear(h), NoItem)

\* the reference double-ended sequence: what each call makes of the items r
RefAfter(op, arg, r) ==
    IF op \in {"insert_first"} THEN <<arg>> \o r
    ELSE IF op \in {"insert_last", "enqueue"} THEN Append(r, arg)
    ELSE IF op \in {"remove_first", "dequeue"} /\ r # <<>> THEN Tail(r)
    ELSE IF op = "remove_last" /\ r # <<>> THEN SubSeq(r, 1, Len(r) - 1)
    ELSE IF op = "rotate" /\ r # <<>> THEN Append(Tail(r), Head(r))
    ELSE IF op = "clear" THEN <<>>
    ELSE r

\* the reference after a call: its items, the enqueue and dequeue calls that
\* succeeded since the last clear, and whether a call has ever taken the
\* last item out
ReferenceAfter(op, arg, r) ==
    [items |-> RefAfter(op, arg, r.items),
     enqueued |-> IF op = "clear" THEN 0
                  ELSE IF op = "enqueue" THEN r.enqueued + 1 ELSE r.enqueued,
     dequeued |-> IF op = "clear" THEN 0
                  ELSE IF op = "dequeue" /\ r.items # <<>> THEN r.dequeued + 1
                  ELSE r.dequeued,
     emptied |-> r.emptied \/ (r.items # <<>> /\ RefAfter(op, arg, r.items) = <<>>)]

\* a call on the deque returns or raises
deque_call(op, arg, out) ==
    /\ deque' = Release(out.container)
    /\ qcall' = QCall("Deque", op, arg, out.container.err, out.ret)
    /\ reference' = ReferenceAfter(op, arg, reference)
    /\ UNCHANGED <<positional, favourites, sorting, queue, cqueue, later>>

\* every call a client can make on a deque of fewer than MaxLen items, and
\* those that add none on a deque of MaxLen
NextDeque ==
    \/ \E item \in Items :
          ListLen(deque) < MaxLen /\ deque_call("insert_first", item, Deque_insert_first(deque, item))
    \/ \E item \in Items :
          ListLen(deque) < MaxLen /\ deque_call("insert_last", item, Deque_insert_last(deque, item))
    \/ deque_call("remove_first", NoItem, Deque_remove_first(deque))
    \/ deque_call("remove_last", NoItem, Deque_remove_last(deque))
    \/ deque_call("peek_first", NoItem, Deque_peek_first(deque))
    \/ deque_call("peek_last", NoItem, Deque_peek_last(deque))
    \/ deque_call("clear", NoItem, Deque_clear(deque))
SpecDeque == Init /\ [][NextDeque]_vars

\* ---------------------------------------------------------------- queue
\* the nodes met following next from node, until None
RECURSIVE ChainFrom(_, _, _)
ChainFrom(nx, node, fuel) ==
    IF node = Null \/ fuel = 0 THEN <<>>
    ELSE <<node>> \o ChainFrom(nx, nx[node], fuel - 1)

\* Queue.__iter__, as the nodes met
QueueNodesOf(q) == ChainFrom(q.next, q.head, Cardinality(QueueNodes))

\* Queue.__iter__: the items front to back
QueueItems(q) == [i \in 1..Len(QueueNodesOf(q)) |-> q.data[QueueNodesOf(q)[i]]]

\* the nodes the queue object still leads to, from _head or from _tail
QueueLive(q) ==
    Range(QueueNodesOf(q)) \cup Range(ChainFrom(q.next, q.tail, Cardinality(QueueNodes)))

\* the identifier _Node(item) gets: the smallest one of no live node
FreeNode(q, live) ==
    CHOOSE n \in QueueNodes \ live : \A m \in QueueNodes \ live : n <= m

\* the nodes the queue no longer leads to are gone when a method returns;
\* the exception, if any, has been reported
QueueRelease(q, live) ==
    [q EXCEPT !.next = [n \in QueueNodes |-> IF n \in live THEN q.next[n] ELSE Null],
              !.data = [n \in QueueNodes |-> IF n \in live THEN q.data[n] ELSE NoItem],
              !.err = NoError]

\* Queue.is_empty
Queue_is_empty(q) == q.size = 0

\* Queue.enqueue
Queue_enqueue(q, item) ==
    LET new_node == FreeNode(q, QueueLive(q))
        linked == [q EXCEPT !.data[new_node] = item, !.next[new_node] = Null]
        joined == IF q.tail = Null THEN [linked EXCEPT !.head = new_node]
                  ELSE [linked EXCEPT !.next[q.tail] = new_node]
    IN Outcome([joined EXCEPT !.tail = new_node, !.size = q.size + 1], NoItem)

\* mutant of Queue_dequeue: _tail keeps the last node when the queue becomes
\* empty
Queue_dequeue_KeepsTail(q) ==
    IF q.head = Null THEN Outcome([q EXCEPT !.err = IndexError], NoItem)
    ELSE Outcome([q EXCEPT !.head = q.next[q.head], !.size = q.size - 1], q.data[q.head])

\* Queue.dequeue: IndexError("dequeue from empty queue") when _head is None
Queue_dequeue(q) ==
    IF q.head = Null THEN Outcome([q EXCEPT !.err = IndexError], NoItem)
    ELSE LET shifted == [q EXCEPT !.head = q.next[q.head], !.size = q.size - 1] IN
         Outcome(IF Queue_is_empty(shifted) THEN [shifted EXCEPT !.tail = Null] ELSE shifted,
                 q.data[q.head])

\* Queue.peek: IndexError("peek from empty queue") when _head is None
Queue_peek(q) ==
    IF q.head = Null THEN Outcome([q EXCEPT !.err = IndexError], NoItem)
    ELSE Outcome(q, q.data[q.head])

\* Queue.clear
Queue_clear(q) == Outcome([q EXCEPT !.head = Null, !.tail = Null, !.size = 0], NoItem)

\* a call on the queue returns or raises
queue_call(op, arg, out) ==
    /\ queue' = QueueRelease(out.container, QueueLive(out.container))
    /\ qcall' = QCall("Queue", op, arg, out.container.err, out.ret)
    /\ reference' = ReferenceAfter(op, arg, reference)
    /\ UNCHANGED <<positional, favourites, sorting, deque, cqueue, later>>

\* every call a client can make on a queue of fewer than MaxLen items,
\* enqueue at most MaxEnqueues times between two clear calls
NextQueue ==
    \/ \E item \in Items :
          /\ queue.size < MaxLen /\ reference.enqueued < MaxEnqueues
          /\ queue_call("enqueue", item, Queue_enqueue(queue, item))
    \/ queue_call("dequeue", NoItem, Queue_dequeue(queue))
    \/ queue_call("peek", NoItem, Queue_peek(queue))
    \/ queue_call("clear", NoItem, Queue_clear(queue))
SpecQueue == Init /\ [][NextQueue]_vars

\* ---------------------------------------------------------------- circular queue
\* CircularQueue.__iter__, the loop: the nodes from node up to the tail
RECURSIVE RingFrom(_, _, _)
RingFrom(c, node, fuel) ==
    IF node = c.tail \/ node = Null \/ fuel = 0 THEN <<>>
    ELSE <<node>> \o RingFrom(c, c.next[node], fuel - 1)

\* CircularQueue.__iter__, as the nodes met: from the head round to the tail
RingNodesOf(c) ==
    IF c.tail = Null THEN <<>>
    ELSE Append(RingFrom(c, c.next[c.tail], Cardinality(QueueNodes)), c.tail)

\* CircularQueue.__iter__: the items front to back
RingItems(c) == [i \in 1..Len(RingNodesOf(c)) |-> c.data[RingNodesOf(c)[i]]]

\* CircularQueue.is_empty
CircularQueue_is_empty(c) == c.size = 0

\* CircularQueue.enqueue
CircularQueue_enqueue(c, item) ==
    LET new_node == FreeNode(c, Range(RingNodesOf(c)))
        made == [c EXCEPT !.data[new_node] = item]
        linked == IF c.tail = Null THEN [made EXCEPT !.next[new_node] = new_node]
                  ELSE [made EXCEPT !.next[new_node] = c.next[c.tail],
                                    !.next[c.tail] = new_node]
    IN Outcome([linked EXCEPT !.tail = new_node, !.size = c.size + 1], NoItem)

\* CircularQueue.dequeue: IndexError("dequeue from empty queue") when _tail
\* is None
CircularQueue_dequeue(c) ==
    IF c.tail = Null THEN Outcome([c EXCEPT !.err = IndexError], NoItem)
    ELSE LET head == c.next[c.tail]
             shifted == [c EXCEPT !.next[c.tail] = c.next[head], !.size = c.size - 1]
         IN Outcome(IF CircularQueue_is_empty(shifted) THEN [shifted EXCEPT !.tail = Null]
                    ELSE shifted,
                    c.data[head])

\* mutant of CircularQueue_rotate: the tail moves on by two nodes
CircularQueue_rotate_Twice(c) ==
    IF c.tail = Null THEN Outcome(c, NoItem)
    ELSE Outcome([c EXCEPT !.tail = c.next[c.next[c.tail]]], NoItem)

\* CircularQueue.rotate: the former head becomes the tail
CircularQueue_rotate(c) ==
    IF c.tail = Null THEN Outcome(c, NoItem)
    ELSE Outcome([c EXCEPT !.tail = c.next[c.tail]], NoItem)

\* CircularQueue.peek: IndexError("peek from empty queue") when _tail is None
CircularQueue_peek(c) ==
    IF c.tail = Null THEN Outcome([c EXCEPT !.err = IndexError], NoItem)
    ELSE Outcome(c, c.data[c.next[c.tail]])

\* CircularQueue.clear
CircularQueue_clear(c) == Outcome([c EXCEPT !.tail = Null, !.size = 0], NoItem)

\* a call on the circular queue returns or raises
cqueue_call(op, arg, out) ==
    /\ cqueue' = QueueRelease(out.container, Range(RingNodesOf(out.container)))
    /\ qcall' = QCall("CircularQueue", op, arg, out.container.err, out.ret)
    /\ reference' = ReferenceAfter(op, arg, reference)
    /\ UNCHANGED <<positional, favourites, sorting, deque, queue, later>>

\* every call a client can make on a circular queue of fewer than MaxLen
\* items, enqueue at most MaxEnqueues times between two clear calls
NextCircular ==
    \/ \E item \in Items :
          /\ cqueue.size < MaxLen /\ reference.enqueued < MaxEnqueues
          /\ cqueue_call("enqueue", item, CircularQueue_enqueue(cqueue, item))
    \/ cqueue_call("dequeue", NoItem, CircularQueue_dequeue(cqueue))
    \/ cqueue_call("rotate", NoItem, CircularQueue_rotate(cqueue))
    \/ cqueue_call("peek", NoItem, CircularQueue_peek(cqueue))
    \/ cqueue_call("clear", NoItem, CircularQueue_clear(cqueue))
SpecCircular == Init /\ [][NextCircular]_vars

\* ---------------------------------------------------------------- older circular queue
\* the class of circular_queue.py
OlderQueue == "circular_queue.CircularQueue"

\* circular_queue.py, line 1: from linked_list import SingleLinkNode as Node.
\* linked_list/__init__.py defines Position and nothing else, so the import
\* of the module raises ImportError
SingleLinkNodeExported == FALSE

\* circular_queue.CircularQueue.is_empty
OlderCircularQueue_is_empty(c) == c.size = 0

\* circular_queue.CircularQueue._head
OlderCircularQueue_head(c) ==
    IF OlderCircularQueue_is_empty(c) THEN Null ELSE c.next[c.tail]

\* circular_queue.CircularQueue.enqueue: _tail and _size are assigned in the
\* else branch only
OlderCircularQueue_enqueue(c, element) ==
    LET new_node == FreeNode(c, Range(RingNodesOf(c)))
        made == [c EXCEPT !.data[new_node] = element, !.next[new_node] = Null]
    IN IF OlderCircularQueue_is_empty(c)
       THEN Outcome([made EXCEPT !.next[new_node] = new_node], NoItem)
       ELSE Outcome([made EXCEPT !.next[new_node] = OlderCircularQueue_head(c),
                                 !.next[c.tail] = new_node,
                                 !.tail = new_node,
                                 !.size = c.size + 1],
                    NoItem)

\* circular_queue.CircularQueue.dequeue
OlderCircularQueue_dequeue(c) ==
    IF OlderCircularQueue_is_empty(c) THEN Outcome([c EXCEPT !.err = IndexError], NoItem)
    ELSE LET head == OlderCircularQueue_head(c)
             shifted == [c EXCEPT !.next[c.tail] = c.next[head], !.size = c.size - 1]
         IN Outcome(IF OlderCircularQueue_is_empty(shifted) THEN [shifted EXCEPT !.tail = Null]
                    ELSE shifted,
                    c.data[head])

\* circular_queue.CircularQueue.rotate
OlderCircularQueue_rotate(c) ==
    Outcome([c EXCEPT !.tail = OlderCircularQueue_head(c)], NoItem)

\* a statement q.<method>(...) of a client that began with
\* from linked_list.circular_queue import CircularQueue; q = CircularQueue():
\* when the import raises, the names are never bound
oldqueue_call(op, arg, out) ==
    /\ UNCHANGED <<positional, favourites, sorting, deque, queue, cqueue, reference,
                   array, tree, tcall, favorites>>
    /\ IF SingleLinkNodeExported
       THEN /\ oldqueue' = QueueRelease(out.container, Range(RingNodesOf(out.container)))
            /\ qcall' = QCall(OlderQueue, op, arg, out.container.err, out.ret)
       ELSE /\ qcall' = QCall(OlderQueue, op, arg, ImportError, NoItem)
            /\ UNCHANGED oldqueue

\* the calls a client can make on the older queue, next to those on the
\* queue of circular.py
NextOlderCircular ==
    \/ \E element \in Items :
          /\ oldqueue.size < MaxLen
          /\ oldqueue_call("enqueue", element, OlderCircularQueue_enqueue(oldqueue, element))
    \/ oldqueue_call("dequeue", NoItem, OlderCircularQueue_dequeue(oldqueue))
    \/ oldqueue_call("rotate", NoItem, OlderCircularQueue_rotate(oldqueue))
    \/ NextCircular
SpecOlderCircular == Init /\ [][NextOlderCircular]_vars

\* ---------------------------------------------------------------- dynamic array
\* DynamicArray.__len__
DynamicArray_len(a) == a.n

\* DynamicArray.__getitem__: IndexError("index out of range") unless
\* 0 <= k < _n
DynamicArray_getitem(a, k) ==
    IF ~(0 <= k /\ k < a.n) THEN Outcome([a EXCEPT !.err = IndexError], NoItem)
    ELSE Outcome(a, a.array[k])

\* DynamicArray._resize(c): the first _n elements are copied to a new array
DynamicArray_resize(a, c) ==
    [a EXCEPT !.array = [k \in 0..(c - 1) |-> IF k < a.n THEN a.array[k] ELSE NullObject],
              !.capacity = c]

\* DynamicArray.insert, the loop "for j in range(k, self._n)" from index j
\* on: self._array[j + 1] = self._array[j], with j going up
RECURSIVE ShiftRight(_, _, _)
ShiftRight(slots, j, n) ==
    IF j >= n THEN slots
    ELSE ShiftRight([slots EXCEPT ![j + 1] = slots[j]], j + 1, n)

\* DynamicArray.insert: IndexError("index out of range") unless 0 <= k <= _n;
\* the capacity is doubled when the array is full
DynamicArray_insert(a, k, element) ==
    IF ~(0 <= k /\ k <= a.n) THEN Outcome([a EXCEPT !.err = IndexError], NoItem)
    ELSE LET roomy == IF a.n = a.capacity THEN DynamicArray_resize(a, 2 * a.capacity) ELSE a
             shifted == ShiftRight(roomy.array, k, roomy.n)
         IN Outcome([roomy EXCEPT !.array = [shifted EXCEPT ![k] = element],
                                  !.n = roomy.n + 1],
                    NoItem)

\* DynamicArray.append
DynamicArray_append(a, element) == DynamicArray_insert(a, a.n, element)

\* DynamicArray.remove, the loop "for j in range(k, self._n - 1)" from index
\* j on: self._array[j] = self._array[j + 1]
RECURSIVE ShiftLeft(_, _, _)
ShiftLeft(slots, j, n) ==
    IF j >= n - 1 THEN slots
    ELSE ShiftLeft([slots EXCEPT ![j] = slots[j + 1]], j + 1, n)

\* DynamicArray.remove, the search from index k on: the first occurrence of
\* the element is removed, ValueError("element not found") if there is none
RECURSIVE RemoveFrom(_, _, _)
RemoveFrom(a, element, k) ==
    IF k >= a.n THEN Outcome([a EXCEPT !.err = ValueError], NoItem)
    ELSE IF a.array[k] = element
    THEN Outcome([a EXCEPT !.array = [ShiftLeft(a.array, k, a.n) EXCEPT ![a.n - 1] = PyNone],
                            !.n = a.n - 1],
                 NoItem)
    ELSE RemoveFrom(a, element, k + 1)

DynamicArray_remove(a, element) == RemoveFrom(a, element, 0)

\* a call on the array returns or raises
array_call(op, arg, out) ==
    /\ array' = [out.container EXCEPT !.err = NoError]
    /\ qcall' = QCall("DynamicArray", op, arg, out.container.err, out.ret)
    /\ UNCHANGED <<positional, favourites, sorting, deque, queue, cqueue, reference,
                   tree, tcall, older>>

\* every call a client can make on an array of fewer than MaxArray elements,
\* with indices from -1 to one past the length, and the calls that add
\* nothing on an array of MaxArray
NextArray ==
    \/ \E k \in (0 - 1)..(array.n + 1), element \in Items :
          /\ array.n < MaxArray \/ ~(0 <= k /\ k <= array.n)
          /\ array_call("insert", <<k, element>>, DynamicArray_insert(array, k, element))
    \/ \E element \in Items :
          /\ array.n < MaxArray
          /\ array_call("append", <<array.n, element>>, DynamicArray_append(array, element))
    \/ \E element \in Items :
          array_call("remove", <<0, element>>, DynamicArray_remove(array, element))
    \/ \E k \in (0 - 1)..(array.n + 1) :
          array_call("getitem", <<k, NoItem>>, DynamicArray_getitem(array, k))
SpecArray == Init /\ [][NextArray]_vars

\* ---------------------------------------------------------------- linked binary tree
\* Position.__eq__ of linked_binary_tree: False for anything that is not a
\* Position, else "(self._tree, self._node) is (other._tree, other._node)",
\* the identity of two tuples built for the comparison, which are never the
\* same object
TreePosition_eq(p, q) == FALSE

\* LinkedBinaryTree._validate: TRUE when the node is returned, FALSE when
\* ValueError("invalid position") is raised
LBT_validate(t, p) ==
    IF p.tree # t.id \/ t.deprecated[p.node] THEN FALSE ELSE TRUE

\* LinkedBinaryTree._make_position
LBT_make_position(t, node) ==
    IF node = Null THEN TreeNone ELSE TreePosition(t.id, node)

\* LinkedBinaryTree.root
LBT_root(t) == IF t.root = Null THEN TreeNone ELSE LBT_make_position(t, t.root)

\* LinkedBinaryTree.parent
LBT_parent(t, p) ==
    IF ~LBT_validate(t, p) THEN TreeRaised
    ELSE IF t.parent[p.node] = Null THEN TreeNone
    ELSE LBT_make_position(t, t.parent[p.node])

\* LinkedBinaryTree.left_child
LBT_left_child(t, p) ==
    IF ~LBT_validate(t, p) THEN TreeRaised
    ELSE IF t.left[p.node] = Null THEN TreeNone
    ELSE LBT_make_position(t, t.left[p.node])

\* LinkedBinaryTree.right_child
LBT_right_child(t, p) ==
    IF ~LBT_validate(t, p) THEN TreeRaised
    ELSE IF t.right[p.node] = Null THEN TreeNone
    ELSE LBT_make_position(t, t.right[p.node])

\* LinkedBinaryTree.n_children, for a position that _validate accepts
LBT_n_children(t, p) ==
    (IF t.left[p.node] # Null THEN 1 ELSE 0) + (IF t.right[p.node] # Null THEN 1 ELSE 0)

\* what a method of the tree ends with: the tree as it leaves it, the error
\* raised, the element or number returned and the position returned
TreeOutcome(t, err, ret, retp) == [tree |-> t, err |-> err, ret |-> ret, retp |-> retp]

TreeRaises(t, err) == TreeOutcome(t, err, NoItem, TreeNone)

\* Tree.is_empty
LBT_is_empty(t) == t.size = 0

\* _Node(element, parent=node): the next unused identifier
LBT_new_node(t, element, parent_node) ==
    [t EXCEPT !.element[t.alloc + 1] = element,
              !.parent[t.alloc + 1] = parent_node,
              !.left[t.alloc + 1] = Null,
              !.right[t.alloc + 1] = Null,
              !.deprecated[t.alloc + 1] = FALSE,
              !.alloc = t.alloc + 1]

\* LinkedBinaryTree._add_root: ValueError("non-empty tree") unless is_empty()
LBT_add_root(t, element) ==
    IF ~LBT_is_empty(t) THEN TreeRaises(t, ValueError)
    ELSE LET made == LBT_new_node(t, element, Null)
             grown == [made EXCEPT !.root = made.alloc, !.size = 1]
         IN TreeOutcome(grown, NoError, NoItem, LBT_make_position(grown, grown.root))

\* LinkedBinaryTree._add_left
LBT_add_left(t, p, element) ==
    IF ~LBT_validate(t, p) THEN TreeRaises(t, ValueError)
    ELSE IF t.left[p.node] # Null THEN TreeRaises(t, ValueError)
    ELSE LET made == LBT_new_node(t, element, p.node)
             grown == [made EXCEPT !.left[p.node] = made.alloc, !.size = t.size + 1]
         IN TreeOutcome(grown, NoError, NoItem, LBT_make_position(grown, grown.left[p.node]))

\* LinkedBinaryTree._add_right
LBT_add_right(t, p, element) ==
    IF ~LBT_validate(t, p) THEN TreeRaises(t, ValueError)
    ELSE IF t.right[p.node] # Null THEN TreeRaises(t, ValueError)
    ELSE LET made == LBT_new_node(t, element, p.node)
             grown == [made EXCEPT !.right[p.node] = made.alloc, !.size = t.size + 1]
         IN TreeOutcome(grown, NoError, NoItem, LBT_make_position(grown, grown.right[p.node]))

\* LinkedBinaryTree._delete: ValueError on an invalid position and on a node
\* with two children; else "child = node.left or node.right", then one of
\* the three branches on node.parent and child, then the node is deprecated
LBT_delete(t, p) ==
    LET node == p.node
        child == IF t.left[node] # Null THEN t.left[node] ELSE t.right[node]
        relinked ==
            IF t.parent[node] = Null THEN [t EXCEPT !.root = child]
            ELSE IF child = Null
            THEN IF node = t.left[t.parent[node]]
                 THEN [t EXCEPT !.left[t.parent[node]] = child]
                 ELSE [t EXCEPT !.right[t.parent[node]] = child]
            ELSE [t EXCEPT !.parent[child] = t.parent[node]]
    IN IF ~LBT_validate(t, p) THEN TreeRaises(t, ValueError)
       ELSE IF LBT_n_children(t, p) = 2 THEN TreeRaises(t, ValueError)
       ELSE TreeOutcome([relinked EXCEPT !.deprecated[node] = TRUE, !.size = t.size - 1],
                        NoError, t.element[node], TreeNone)

\* Tree.is_root: self.root() == p
Tree_is_root(t, p) ==
    TreeOutcome(t, NoError, TreePosition_eq(LBT_root(t), p), TreeNone)

\* BinaryTree.sibling
BinaryTree_sibling(t, p) ==
    LET parent == LBT_parent(t, p) IN
    IF parent = TreeRaised THEN TreeRaises(t, ValueError)
    ELSE IF parent = TreeNone THEN TreeOutcome(t, NoError, NoItem, TreeNone)
    ELSE IF LBT_left_child(t, parent) = TreeRaised THEN TreeRaises(t, ValueError)
    ELSE IF TreePosition_eq(p, LBT_left_child(t, parent))
    THEN TreeOutcome(t, NoError, NoItem, LBT_right_child(t, parent))
    ELSE TreeOutcome(t, NoError, NoItem, LBT_left_child(t, parent))

\* the positions a client can hold: Position(tree, node) for every node
\* constructed and either tree instance
TreeHandles == {TreePosition(i, n) : i \in {ThisTree, OtherTree}, n \in 1..tree.alloc}

\* a call on the tree returns or raises
tree_call(op, p, arg, out) ==
    /\ tree' = out.tree
    /\ tcall' = TreeCall(op, p, arg, out.err, out.ret, out.retp)
    /\ UNCHANGED <<positional, favourites, sorting, containers, array, older>>

\* the calls a client makes on a tree of at most MaxTree nodes (a call that
\* raises before constructing a node is always possible)
NextTree ==
    \/ \E element \in Items :
          /\ tree.alloc < MaxTree \/ ~LBT_is_empty(tree)
          /\ tree_call("_add_root", TreeNone, element, LBT_add_root(tree, element))
    \/ \E p \in TreeHandles, element \in Items :
          /\ tree.alloc < MaxTree \/ LBT_add_left(tree, p, element).err # NoError
          /\ tree_call("_add_left", p, element, LBT_add_left(tree, p, element))
    \/ \E p \in TreeHandles, element \in Items :
          /\ tree.alloc < MaxTree \/ LBT_add_right(tree, p, element).err # NoError
          /\ tree_call("_add_right", p, element, LBT_add_right(tree, p, element))
    \/ \E p \in TreeHandles : tree_call("_delete", p, NoItem, LBT_delete(tree, p))
    \/ \E p \in TreeHandles : tree_call("is_root", p, NoItem, Tree_is_root(tree, p))
    \/ \E p \in TreeHandles : tree_call("sibling", p, NoItem, BinaryTree_sibling(tree, p))
SpecTree == Init /\ [][NextTree]_vars

TypeOK ==
    /\ \A n \in Created : next[n] \in (Created \cup Trailers) /\ prev[n] \in (Created \cup Headers)
    /\ \A h \in Headers : next[h] \in Created \cup Trailers
    /\ \A t \in Trailers : prev[t] \in Created \cup Headers
    /\ \A l \in Lists : Len(Forward(l)) <= alloc /\ Len(Backward(l)) <= alloc

\* ---------------------------------------------------------------- claims
\* the operations that take a position
PositionOps == {"insert_before", "insert_after", "remove", "replace",
                "position_before", "position_after"}

Reverse(s) == [i \in 1..Len(s) |-> s[Len(s) + 1 - i]]

\* C1: after any sequence of calls, len(list) equals the number of nodes met
\* by forward traversal from the header's successor up to the trailer.
C1_SizeIsTraversalCount ==
    \A l \in Lists : LenOf(l) = Len(Forward(l))

\* C2: every node reachable by forward traversal has n.prev.next == n and
\* n.next.prev == n, and backward traversal from the trailer meets the same
\* nodes in reverse order.
C2_LinksConsistent ==
    \A l \in Lists :
        /\ \A n \in Range(Forward(l)) : next[prev[n]] = n /\ prev[next[n]] = n
        /\ Backward(l) = Reverse(Forward(l))

\* C3: once remove(p) has succeeded, every later operation that takes a
\* position raises ValueError when given p (or a position equal to p).
C3_RemovedPositionRaises ==
    [][(/\ last'.op \in PositionOps
        /\ last'.pnode \in removed
        /\ PositionEq(Position(last'.pnode, last'.plist),
                      MakePosition(last'.list, last'.pnode)))
       => last'.err = ValueError]_vars

\* a removed position was used again, after other calls, and the call raised
C3_Witness ==
    /\ last.op = "insert_after"
    /\ last.pnode \in removed
    /\ last.plist = last.list
    /\ last.err = ValueError
    /\ alloc = MaxNodes

\* C4: after clear(), every position obtained before the clear is invalid
\* (every node present at the time of the clear is retired).
C4_ClearInvalidates ==
    [][\A l \in Lists : clear(l) =>
          /\ \A n \in Range(Forward(l)) : deprecated'[n]
          /\ \A p \in Handles : p.list = l => ~Validate(l, p)']_vars

\* C5: a position-taking operation called with an invalid position (another
\* list's, or a retired node's) raises ValueError and leaves the list unchanged.
C5_InvalidPositionNoEffect ==
    [][(/\ last'.op \in PositionOps
        /\ (last'.plist # last'.list \/ deprecated[last'.pnode]))
       => (last'.err = ValueError /\ UNCHANGED store)]_vars

\* replace was given the position of a retired node and raised
C5_Witness ==
    /\ last.op = "replace"
    /\ deprecated[last.pnode]
    /\ last.err = ValueError

\* C6: a position created by list A and passed to a position-taking operation
\* of another list B raises ValueError, also while its node is live in A;
\* neither list is modified.
C6_ForeignPositionRaises ==
    [][(last'.op \in PositionOps /\ last'.plist # last'.list)
       => (last'.err = ValueError /\ UNCHANGED store)]_vars

\* list B's remove raised on a position of a node live in the non-empty list
\* A, while B holds a node of its own
C6_Witness ==
    /\ last.op = "remove"
    /\ last.plist # last.list
    /\ last.err = ValueError
    /\ ~deprecated[last.pnode]
    /\ last.pnode \in Range(Forward(last.plist))
    /\ Forward(last.list) # <<>>

\* C7: a position of a node that has not been removed stays valid and keeps
\* its node and, absent replace, its element across insertions and removals
\* of other positions; remove(p) invalidates only positions of p's node.
C7_OtherPositionsStayValid ==
    [][\A p \in Handles :
          (/\ Validate(p.list, p)
           /\ last'.op # "clear"
           /\ ~(last'.op = "remove" /\ last'.err = NoError /\ last'.pnode = p.node))
          => /\ p \in Handles'
             /\ Validate(p.list, p)'
             /\ (last'.op = "replace" /\ last'.pnode = p.node) \/ data'[p.node] = data[p.node]]_vars

\* a remove succeeded on one node while the position of another node is valid
C7_Witness ==
    /\ last.op = "remove"
    /\ last.err = NoError
    /\ \E p \in Handles : p.node # last.pnode /\ Validate(p.list, p)
                          /\ p.node \in Range(Forward(p.list))

\* C8: the deprecated flag is monotone: false when an insertion creates the
\* node, set only by a successful removal of that node, never reset; and a
\* retired node is never again reachable by traversal from the header.
C8_RetiredIsTerminal ==
    /\ [](\A l \in Lists : \A n \in Range(Forward(l)) : ~deprecated[n])
    /\ [][/\ \A n \in Created' \ Created : ~deprecated'[n]
          /\ \A n \in Created : deprecated[n] => deprecated'[n]
          /\ \A n \in Created : (~deprecated[n] /\ deprecated'[n]) =>
                (last'.op = "remove" /\ last'.err = NoError /\ last'.pnode = n)]_vars

\* a node was retired, and a node inserted afterwards is in the list
C8_Witness ==
    /\ \E n \in Created : deprecated[n] /\ n \in removed
    /\ last.op \in {"insert_first", "insert_last", "insert_before", "insert_after"}
    /\ last.err = NoError
    /\ last.retnode \in Range(Forward(last.list))

\* C9: p = insert_last(x) followed immediately by remove(p) returns x and
\* restores the prior size and the prior front-to-back element sequence.
C9_InsertLastRemoveRoundTrip ==
    [][\A l \in Lists :
          (/\ before.set
           /\ last.op = "insert_last" /\ last.list = l
           /\ last'.op = "remove" /\ last'.list = l
           /\ PositionEq(Position(last'.pnode, last'.plist), MakePosition(l, last.retnode)))
          => /\ last'.err = NoError
             /\ last'.ret = before.item
             /\ LenOf(l)' = before.size
             /\ NodesOf(next', l) = before.nodes
             /\ ItemsOf(next', data', l) = before.elems]_vars

\* s without the entries equal to x
RECURSIVE Without(_, _)
Without(s, x) ==
    IF s = <<>> THEN <<>>
    ELSE IF Head(s) = x THEN Without(Tail(s), x)
    ELSE <<Head(s)>> \o Without(Tail(s), x)

\* before is directly followed by after in s
Adjacent(s, b, a) == \E i \in 1..(Len(s) - 1) : s[i] = b /\ s[i + 1] = a

\* C10: each insertion puts exactly one new element at the stated place and
\* changes nothing else; size grows by one and the returned position is valid
\* and refers to the new element.
C10_InsertPlacesOneElement ==
    [][\A l \in Lists :
          (/\ last'.op \in {"insert_first", "insert_last", "insert_before", "insert_after"}
           /\ last'.list = l
           /\ last'.err = NoError)
          => LET new == last'.retnode
                 F == Forward(l)
                 G == NodesOf(next', l)
             IN /\ new \notin Range(F)
                /\ Len(G) = Len(F) + 1
                /\ Without(G, new) = F
                /\ LenOf(l)' = LenOf(l) + 1
                /\ \A n \in Range(F) : data'[n] = data[n]
                /\ data'[new] = last'.item
                /\ owner'[new] = l /\ ~deprecated'[new]
                /\ last'.op = "insert_first" => G[1] = new
                /\ last'.op = "insert_last" => G[Len(G)] = new
                /\ last'.op = "insert_before" => Adjacent(G, new, last'.pnode)
                /\ last'.op = "insert_after" => Adjacent(G, last'.pnode, new)]_vars

\* C11: replace(p, v) with a valid p returns the element stored at p before
\* the call and stores v there; the order of the nodes, the size, the elements
\* at all other positions and the validity of every position, p included, are
\* as before.
C11_ReplaceFrame ==
    [][(last'.op = "replace" /\ last'.err = NoError)
       => LET l == last'.list
              node == last'.pnode
          IN /\ last'.ret = data[node]
             /\ data'[node] = last'.item
             /\ \A n \in NodeIds \ {node} : data'[n] = data[n]
             /\ NodesOf(next', l) = Forward(l)
             /\ UNCHANGED <<next, prev, size>>
             /\ Handles' = Handles
             /\ \A q \in Handles : \A k \in Lists : Validate(k, q)' = Validate(k, q)
             /\ last'.plist = l /\ ~deprecated'[node]]_vars

\* replace stored a different element at a position of a two-element list
C11_Witness ==
    /\ last.op = "replace"
    /\ last.err = NoError
    /\ last.ret # last.item
    /\ data[last.pnode] = last.item
    /\ Len(Forward(last.list)) = 2
    /\ last.pnode \in Range(Forward(last.list))

\* C12: first_position() and last_position() return nothing exactly when the
\* list is empty; position_before(p) returns nothing exactly when p is the
\* first position and position_after(p) exactly when p is the last; in every
\* other case the position returned is valid and refers to the adjacent
\* element; and no operation returns a position of a header or trailer.
C12_QueriesReturnNeighbours ==
    [][LET l == last'.list
           F == Forward(l)
           r == last'.retnode
           p == last'.pnode
           Valid(n) == owner[n] = l /\ ~deprecated[n]
       IN /\ r \notin Headers \cup Trailers
          /\ last'.op = "first_position" =>
                /\ (r = Null) <=> (LenOf(l) = 0)
                /\ r # Null => (Valid(r) /\ F # <<>> /\ r = F[1])
          /\ last'.op = "last_position" =>
                /\ (r = Null) <=> (LenOf(l) = 0)
                /\ r # Null => (Valid(r) /\ F # <<>> /\ r = F[Len(F)])
          /\ (last'.op = "position_before" /\ last'.err = NoError) =>
                /\ (r = Null) <=> (F # <<>> /\ p = F[1])
                /\ r # Null => (Valid(r) /\ Adjacent(F, r, p))
          /\ (last'.op = "position_after" /\ last'.err = NoError) =>
                /\ (r = Null) <=> (F # <<>> /\ p = F[Len(F)])
                /\ r # Null => (Valid(r) /\ Adjacent(F, p, r))]_vars

\* C13: at the linked-sequence layer, _remove called with the header or the
\* trailer raises IndexError and leaves links and size unchanged; called with
\* a live node it unlinks the node, decrements the size by one and returns
\* the item the node stores.
C13_BaseRemove ==
    [][last'.op = "_remove" =>
          LET l == last'.list
              node == last'.pnode
          IN /\ node \in {Header(l), Trailer(l)} =>
                   (last'.err = IndexError /\ UNCHANGED <<next, prev, size, data>>)
             /\ node \in Range(Forward(l)) =>
                   /\ last'.err = NoError
                   /\ last'.ret = data[node]
                   /\ NodesOf(next', l) = Without(Forward(l), node)
                   /\ next'[prev[node]] = next[node]
                   /\ prev'[next[node]] = prev[node]
                   /\ size'[l] = LenOf(l) - 1
                   /\ UNCHANGED data]_vars

\* _remove raised on the trailer of a sequence that holds one of the two
\* nodes inserted so far
C13_Witness ==
    /\ last.op = "_remove"
    /\ last.err = IndexError
    /\ last.pnode = Trailer(last.list)
    /\ alloc = MaxNodes
    /\ Len(Forward(last.list)) = 1
    /\ LenOf(last.list) = 1

\* C14: in the frequency-ranked FavouritesList, after any sequence of access
\* and remove calls from an empty list, the entries are in non-increasing
\* order of counter from front to back.
C14_FrequencyOrder ==
    LET e == Entries(Frequency) IN
    \A i \in 1..(Len(e) - 1) : e[i].count >= e[i + 1].count

\* access has just moved the value it was given to the front of three
\* entries, its counter 2 above two counters 1
C14_Witness ==
    LET e == Entries(Frequency) IN
    /\ fcall.cls = Frequency /\ fcall.op = "access" /\ fcall.err = NoError
    /\ Len(e) = 3
    /\ e[1].value = fcall.arg /\ e[1].count = 2
    /\ e[2].count = 1 /\ e[3].count = 1

\* the values of a sequence of entries
ValuesOf(e) == [i \in 1..Len(e) |-> e[i].value]

\* C15: in FavouritesListMTF, immediately after access(x), x is the first
\* entry, whatever its counter and whether or not x was present before, and
\* the relative order of all other entries is the same as before the call.
C15_AccessMovesToFront ==
    [][(fcall'.cls = MoveToFront /\ fcall'.op = "access") =>
          LET x == fcall'.arg
              e == Entries(MoveToFront)
              f == Entries(MoveToFront)'
          IN /\ fcall'.err = NoError
             /\ f # <<>> /\ f[1].value = x
             /\ Without(ValuesOf(f), x) = Without(ValuesOf(e), x)]_vars

\* the counters of the instance of cls agree with the calls made
CountsMatch(cls) ==
    \A v \in Values : CountOf(flist[cls], v) = hits[cls][v]

\* a call on the instance of cls changes the counters as C16 says
CountStep(cls) ==
    /\ (fcall'.cls = cls /\ fcall'.op = "access") =>
          /\ fcall'.err = NoError
          /\ CountOf(flist'[cls], fcall'.arg) = CountOf(flist[cls], fcall'.arg) + 1
          /\ \A v \in Values \ {fcall'.arg} :
                CountOf(flist'[cls], v) = CountOf(flist[cls], v)
    /\ (fcall'.cls = cls /\ fcall'.op = "remove") =>
          /\ fcall'.err = NoError
          /\ \A v \in Values \ {fcall'.arg} :
                CountOf(flist'[cls], v) = CountOf(flist[cls], v)

\* C16: in both favourites policies the counter of each present value v equals
\* the number of access(v) calls made since v was last absent (so a first
\* access leaves the counter at 1); access(v) changes no other counter and
\* remove changes no counter of a remaining entry.
C16_CountersCountAccesses ==
    /\ [](CountsMatch(Frequency) /\ CountsMatch(MoveToFront))
    /\ [][CountStep(Frequency) /\ CountStep(MoveToFront)]_vars

\* a call on the instance of cls removes what C17 says
RemoveStep(cls) ==
    (fcall'.cls = cls /\ fcall'.op = "remove") =>
       LET v == fcall'.arg
           e == Entries(cls)
           f == ListItems(flist'[cls])
           i == CHOOSE j \in 1..Len(e) : e[j].value = v
       IN /\ fcall'.err = NoError
          /\ IF \E j \in 1..Len(e) : e[j].value = v
             THEN /\ f = [j \in 1..(Len(e) - 1) |-> IF j < i THEN e[j] ELSE e[j + 1]]
                  /\ ListLen(flist'[cls]) = ListLen(flist[cls]) - 1
             ELSE /\ f = e
                  /\ ListLen(flist'[cls]) = ListLen(flist[cls])

\* C17: in both favourites policies, remove(v) for a present value deletes
\* exactly that entry: the size drops by one and the relative order and the
\* counters of all other entries are unchanged; remove(v) for an absent value
\* raises no error and leaves the list unchanged.
C17_RemoveDeletesOneEntry ==
    [][RemoveStep(Frequency) /\ RemoveStep(MoveToFront)]_vars

\* the first k of a sequence
Prefix(s, k) == [i \in 1..k |-> s[i]]

\* C18: in the frequency-ranked FavouritesList, for 0 <= k <= size, top(k)
\* yields exactly k values, the values of the first k entries front to back,
\* so the counters of the yielded values are non-increasing and no omitted
\* entry has a larger counter than a yielded one; top does not modify the list.
C18_TopYieldsFirstK ==
    [][(/\ fcall'.cls = Frequency /\ fcall'.op = "top"
        /\ fcall'.arg <= ListLen(flist[Frequency])) =>
          LET k == fcall'.arg
              e == Entries(Frequency)
          IN /\ fcall'.err = NoError
             /\ Len(fcall'.yielded) = k
             /\ fcall'.yielded = Prefix(ValuesOf(e), k)
             /\ \A i \in 1..(k - 1) : e[i].count >= e[i + 1].count
             /\ \A i \in 1..k : \A j \in (k + 1)..Len(e) : e[j].count <= e[i].count
             /\ flist' = flist]_vars

\* top(2) was consumed on a list of three entries whose counters differ
C18_Witness ==
    LET e == Entries(Frequency) IN
    /\ fcall.cls = Frequency /\ fcall.op = "top" /\ fcall.err = NoError
    /\ fcall.arg = 2 /\ Len(fcall.yielded) = 2
    /\ Len(e) = 3
    /\ e[1].count > e[3].count

\* the place of the entry for value v among the entries e
IndexOfValue(e, v) == CHOOSE j \in 1..Len(e) : e[j].value = v

\* C19: in FavouritesListMTF, for 0 <= k <= size, top(k) yields exactly k
\* values of distinct entries in non-increasing counter order, each being an
\* entry with the largest counter among those not yet yielded and, among equal
\* counters, the one nearest the front; the underlying list (order, counters,
\* size) is the same after top as before.
C19_MTFTopSelectsHighest ==
    [][(/\ fcall'.cls = MoveToFront /\ fcall'.op = "top"
        /\ fcall'.arg <= ListLen(flist[MoveToFront])) =>
          LET k == fcall'.arg
              e == Entries(MoveToFront)
              y == fcall'.yielded
              at(i) == IndexOfValue(e, y[i])
          IN /\ fcall'.err = NoError
             /\ Len(y) = k
             /\ \A i \in 1..k : \E j \in 1..Len(e) : e[j].value = y[i]
             /\ \A i \in 1..k : \A m \in 1..(i - 1) : at(m) # at(i)
             /\ \A i \in 1..(k - 1) : e[at(i)].count >= e[at(i + 1)].count
             /\ \A i \in 1..k : \A j \in 1..Len(e) :
                   (\A m \in 1..(i - 1) : at(m) # j) =>
                      \/ e[j].count < e[at(i)].count
                      \/ (e[j].count = e[at(i)].count /\ at(i) <= j)
             /\ flist' = flist]_vars

\* a top(k) on the instance of cls with fewer than k entries ends as C20 says
ShortTopStep(cls) ==
    (/\ fcall'.cls = cls /\ fcall'.op = "top"
     /\ fcall'.arg > ListLen(flist[cls])) =>
       /\ fcall'.err = IndexError
       /\ flist' = flist

\* C20: in both favourites policies, consuming top(k) when the list has fewer
\* than k entries ends with IndexError ("list has less than k items") and
\* leaves the favourites list unchanged.
C20_TopShortageRaises ==
    [][ShortTopStep(Frequency) /\ ShortTopStep(MoveToFront)]_vars

\* a top(k) on the instance of cls with fewer than k entries fails as C21 says
EmptyHandedStep(cls) ==
    (/\ fcall'.cls = cls /\ fcall'.op = "top"
     /\ fcall'.arg > ListLen(flist[cls])) =>
       /\ fcall'.err = IndexError
       /\ fcall'.yielded = <<>>

\* C21: top(k) on a list with fewer than k entries fails before yielding
\* anything: in FavouritesList and in FavouritesListMTF the iterator produces
\* no value before the insufficient-items error (IndexError) is raised.
C21_ShortageYieldsNothing ==
    [][EmptyHandedStep(Frequency) /\ EmptyHandedStep(MoveToFront)]_vars

\* the counters of the entries of h that hold the given values
CountersOf(h, values) == [i \in 1..Len(values) |-> CountOf(h, values[i])]

\* C22: the same sequence of access and remove calls applied to an empty
\* FavouritesList and an empty FavouritesListMTF gives, after every step, the
\* same set of values with the same counter for each value, and for every
\* k <= size the two top(k) results have identical sequences of counters.
C22_PoliciesAgreeOnCounters ==
    LET f == flist[Frequency]
        m == flist[MoveToFront]
    IN /\ \A v \in Values : CountOf(f, v) = CountOf(m, v)
       /\ ListLen(f) = ListLen(m)
       /\ \A k \in 0..ListLen(f) :
             /\ top(Frequency, f, k).err = NoError
             /\ top(MoveToFront, m, k).err = NoError
             /\ CountersOf(f, top(Frequency, f, k).yielded)
                   = CountersOf(m, top(MoveToFront, m, k).yielded)

\* the call access(item) on the instance of cls, as calls records it
AccessOf(cls, item) == [cls |-> cls, op |-> "access", arg |-> item]

\* C23: starting from an empty move-to-front favourites list, after
\* access("Python"), access(5), access("Python"), access("Python") the list
\* order front to back is [(5, 1), ("Python", 3)].
C23_MTFScenarioOrder ==
    \A python, five \in Values :
        (/\ python # five
         /\ calls = <<AccessOf(MoveToFront, python), AccessOf(MoveToFront, five),
                      AccessOf(MoveToFront, python), AccessOf(MoveToFront, python)>>)
        => Entries(MoveToFront) = <<[value |-> five, count |-> 1],
                                    [value |-> python, count |-> 3]>>

\* the keys of a sequence of sorted-list items
KeysOf(items) == [i \in 1..Len(items) |-> items[i].key]

NonDecreasing(keys) == \A i \in 1..(Len(keys) - 1) : keys[i] <= keys[i + 1]

\* how often x occurs in the sequence s
Occurrences(s, x) == Cardinality({i \in 1..Len(s) : s[i] = x})

\* the two sequences hold the same elements, each as often
SameElements(s, t) ==
    /\ Len(s) = Len(t)
    /\ \A x \in Range(s) \cup Range(t) : Occurrences(s, x) = Occurrences(t, x)

\* C24: after insertion_sort(lst) the element sequence of lst is
\* non-decreasing and is a permutation of the sequence before the call: the
\* same items, each as often, and the same size.
C24_SortedPermutation ==
    scall.op = "insertion_sort" =>
        /\ NonDecreasing(KeysOf(ListItems(plist)))
        /\ SameElements(ListItems(plist), ListItems(scall.input))
        /\ ListLen(plist) = ListLen(scall.input)

\* a list of three nodes has been sorted and two pivots were moved
C24_Witness ==
    /\ scall.op = "insertion_sort"
    /\ scall.err = NoError
    /\ scall.moves = 2
    /\ Len(ListItems(scall.input)) = 3
    /\ ~NonDecreasing(KeysOf(ListItems(scall.input)))

\* C25: insertion_sort on a list that is already non-decreasing moves no
\* pivot (no insert_before, no remove), leaves every node where it was, and
\* every position that was valid before the call is valid after it.
C25_SortedInputUntouched ==
    (scall.op = "insertion_sort" /\ NonDecreasing(KeysOf(ListItems(scall.input)))) =>
        /\ scall.moves = 0
        /\ plist = scall.input
        /\ \A position \in SortHandles :
              PL_validate(scall.input, position) => PL_validate(plist, position)

\* a non-decreasing list of three nodes, two of them with equal keys, has
\* been sorted
C25_Witness ==
    /\ scall.op = "insertion_sort"
    /\ Len(ListItems(scall.input)) = 3
    /\ NonDecreasing(KeysOf(ListItems(scall.input)))
    /\ \E i \in 1..2 : ListItems(scall.input)[i].key = ListItems(scall.input)[i + 1].key
    /\ scall.moves = 0

\* C26: every call of insertion_sort returns: no loop runs on (Diverges), and
\* no positional operation inside it raises ValueError, on the empty list, a
\* list of one node and every longer one.
C26_SortTerminates ==
    scall.op = "insertion_sort" => scall.err = NoError

\* the sort has returned after moving a pivot to the front of the list
C26_Witness ==
    /\ scall.op = "insertion_sort"
    /\ scall.err = NoError
    /\ scall.moves >= 1
    /\ Len(ListItems(plist)) = 3
    /\ ListItems(plist)[1] # ListItems(scall.input)[1]

\* the Position objects a client can construct: Position(node, list) for a
\* node constructed so far and either list instance
PositionObjects == {Position(n, l) : n \in Created, l \in Lists}

\* C27: two positions are equal exactly when they hold the same list
\* instance and the same node; positions of different nodes with equal items
\* are not equal, nor are positions of one node paired with different lists.
C27_PositionEquality ==
    \A p \in PositionObjects, q \in PositionObjects :
        /\ PositionEq(p, q) <=> (p.list = q.list /\ p.node = q.node)
        /\ (p.node # q.node /\ data[p.node] = data[q.node]) => ~PositionEq(p, q)
        /\ (p.node = q.node /\ p.list # q.list) => ~PositionEq(p, q)

\* two nodes of the same list hold equal items
C27_Witness ==
    \E n \in Range(Forward(1)), m \in Range(Forward(1)) :
        /\ n # m
        /\ data[n] = data[m]
        /\ MakePosition(1, n) \in PositionObjects
        /\ Position(n, 2) \in PositionObjects

\* the deque holds the reference items and its length is their number
DequeMatches ==
    /\ ListItems(deque) = reference.items
    /\ ListLen(deque) = Len(reference.items)

\* what the call just made on the deque returned or raised, against the
\* reference sequence as it was before the call
DequeStep ==
    LET r == reference.items IN
    /\ qcall'.op \in {"insert_first", "insert_last"} => qcall'.err = NoError
    /\ qcall'.op \in {"remove_first", "peek_first"} =>
          IF r = <<>> THEN qcall'.err = IndexError /\ deque' = deque
          ELSE qcall'.err = NoError /\ qcall'.ret = Head(r)
    /\ qcall'.op \in {"remove_last", "peek_last"} =>
          IF r = <<>> THEN qcall'.err = IndexError /\ deque' = deque
          ELSE qcall'.err = NoError /\ qcall'.ret = r[Len(r)]
    /\ qcall'.op \in {"peek_first", "peek_last"} => ListItems(deque') = r

QueueMatches ==
    /\ QueueItems(queue) = reference.items
    /\ queue.size = Len(reference.items)
    /\ queue.size = reference.enqueued - reference.dequeued

\* what the call just made on the queue returned or raised, against the
\* reference as it was before the call
QueueStep ==
    LET r == reference.items IN
    /\ qcall'.op \in {"enqueue", "clear"} => qcall'.err = NoError
    /\ qcall'.op \in {"dequeue", "peek"} =>
          IF r = <<>> THEN qcall'.err = IndexError /\ queue' = queue
          ELSE qcall'.err = NoError /\ qcall'.ret = Head(r)
    /\ qcall'.op = "peek" => queue' = queue

\* C29: over any sequence of enqueue, dequeue, peek and clear the queue is
\* first-in first-out, also after dequeue or clear has emptied it and it was
\* refilled; dequeue and peek on the empty queue raise IndexError and leave
\* it as it was; len is the number of enqueue calls less the successful
\* dequeue calls since the last clear.
C29_QueueIsFIFO ==
    [](QueueMatches) /\ [][qcall'.cls = "Queue" => QueueStep]_vars

\* the queue was emptied and refilled, and dequeue has returned the older of
\* two different items
C29_Witness ==
    /\ qcall.cls = "Queue"
    /\ qcall.op = "dequeue"
    /\ qcall.err = NoError
    /\ reference.emptied
    /\ Len(reference.items) >= 1
    /\ qcall.ret # reference.items[1]

\* n applications of rotate to the circular queue c
RECURSIVE Rotations(_, _)
Rotations(c, n) ==
    IF n = 0 THEN c ELSE Rotations(CircularQueue_rotate(c).container, n - 1)

\* the circular queue holds the reference items, and len(queue) rotations
\* bring it back to where it is
CircularMatches ==
    /\ RingItems(cqueue) = reference.items
    /\ cqueue.size = Len(reference.items)
    /\ Rotations(cqueue, cqueue.size) = cqueue

\* what the call just made on the circular queue did, against the reference
\* as it was before the call
CircularStep ==
    LET r == reference.items IN
    /\ qcall'.op = "rotate" =>
          /\ qcall'.err = NoError
          /\ cqueue'.size = cqueue.size
          /\ IF r = <<>> THEN cqueue' = cqueue
             ELSE RingItems(cqueue') = Append(Tail(r), Head(r))
    /\ qcall'.op = "enqueue" =>
          qcall'.err = NoError /\ RingItems(cqueue') = Append(r, qcall'.arg)
    /\ qcall'.op = "dequeue" =>
          IF r = <<>> THEN qcall'.err = IndexError /\ cqueue' = cqueue
          ELSE qcall'.err = NoError /\ qcall'.ret = Head(r) /\ RingItems(cqueue') = Tail(r)

\* C30: rotate turns [x1, ..., xn] into [x2, ..., xn, x1] and keeps the size,
\* n rotations bring the original order back, rotate on the empty queue does
\* nothing, and enqueue and dequeue between rotations add at the back and
\* take from the front of the rotated order.
C30_RotateMovesFrontToBack ==
    [](CircularMatches) /\ [][qcall'.cls = "CircularQueue" => CircularStep]_vars

\* rotate has moved the front item of three behind two items that differ
\* from it
C30_Witness ==
    /\ qcall.cls = "CircularQueue"
    /\ qcall.op = "rotate"
    /\ Len(reference.items) = 3
    /\ reference.items[3] # reference.items[1]
    /\ reference.items[3] # reference.items[2]

\* what insert(k, e), just called, has made of the array
InsertStep ==
    LET k == qcall'.arg[1]
        e == qcall'.arg[2]
    IN IF 0 <= k /\ k <= array.n
       THEN /\ qcall'.err = NoError
            /\ DynamicArray_len(array') = DynamicArray_len(array) + 1
            /\ array'.array[k] = e
            /\ \A j \in 0..(k - 1) : array'.array[j] = array.array[j]
            /\ \A j \in k..(array.n - 1) : array'.array[j + 1] = array.array[j]
       ELSE /\ qcall'.err = IndexError
            /\ array' = array

\* C31: insert(k, e) with 0 <= k <= len makes the array one longer, puts e at
\* index k, leaves the indices below k alone and moves the element of every
\* index j >= k to j + 1; with k outside 0..len it raises IndexError and
\* leaves the array as it was.
C31_InsertShiftsRight ==
    [][(qcall'.cls = "DynamicArray" /\ qcall'.op = "insert") => InsertStep]_vars

\* the nodes met from node by left and right links
RECURSIVE Subtree(_, _, _)
Subtree(t, node, fuel) ==
    IF node = Null \/ fuel = 0 THEN {}
    ELSE {node} \cup Subtree(t, t.left[node], fuel - 1) \cup Subtree(t, t.right[node], fuel - 1)

\* the nodes reachable from the root
Reachable(t) == Subtree(t, t.root, Cardinality(TreeNodes))

\* what _delete(p), just called with a position of a node of this tree that
\* was not deleted before, has made of the tree
DeleteStep ==
    LET node == tcall'.p.node
        par == tree.parent[node]
        child == IF tree.left[node] # Null THEN tree.left[node] ELSE tree.right[node]
    IN IF tree.left[node] # Null /\ tree.right[node] # Null
       THEN tcall'.err = ValueError /\ tree' = tree
       ELSE /\ tcall'.err = NoError
            /\ IF par = Null THEN tree'.root = child
               ELSE IF tree.left[par] = node THEN tree'.left[par] = child
               ELSE tree'.right[par] = child
            /\ child # Null => tree'.parent[child] = par
            /\ tree'.size = tree.size - 1
            /\ tree'.size = Cardinality(Reachable(tree'))
            /\ \A n \in Reachable(tree') :
                  /\ ~tree'.deprecated[n]
                  /\ tree'.parent[n] # Null => ~tree'.deprecated[tree'.parent[n]]

\* C32: _delete(p) of a node with at most one child puts the child, if any,
\* in the node's place: the parent's link (or the root) refers to the child
\* (or to nothing), the child's parent is the node's former parent, len is
\* one less and is the number of nodes reachable from the root, and no
\* deprecated node is reachable or the parent of a reachable node; with two
\* children it raises ValueError and changes nothing.
C32_DeleteReplacesByChild ==
    [][(tcall'.op = "_delete" /\ LBT_validate(tree, tcall'.p)) => DeleteStep]_vars

\* C39: two tree positions are equal exactly when they refer to the same
\* tree and the same node; is_root(p) is True exactly when p's node is the
\* root; sibling(p) is the other child of p's parent, nothing if p is the
\* root or an only child, and never p itself.
C39_TreePositionEquality ==
    /\ [](\A p \in TreeHandles, q \in TreeHandles :
             TreePosition_eq(p, q) <=> (p.tree = q.tree /\ p.node = q.node))
    /\ [][/\ (tcall'.op = "is_root" /\ tcall'.err = NoError) =>
                 (tcall'.ret <=> (tcall'.p.tree = tree.id /\ tcall'.p.node = tree.root))
          /\ (tcall'.op = "sibling" /\ tcall'.err = NoError) =>
                 /\ tcall'.retp.node # tcall'.p.node
                 /\ tcall'.retp.node \in
                        {tree.left[tree.parent[tcall'.p.node]],
                         tree.right[tree.parent[tcall'.p.node]], Null}]_vars

\* no value has two entries in the list of the instance of cls, and the
\* length is the number of values accessed and not removed since
EntriesUnique(cls) ==
    /\ \A v \in Values : Occurrences(ValuesOf(Entries(cls)), v) <= 1
    /\ ListLen(flist[cls]) = Cardinality({v \in Values : hits[cls][v] > 0})
    /\ ListLen(flist[cls]) = Len(Entries(cls))

\* access(v), just called on the instance of cls, has returned with v in
\* exactly one entry and the size one more if v was absent, else the same
AccessKeepsEntry(cls) ==
    (fcall'.cls = cls /\ fcall'.op = "access") =>
        LET v == fcall'.arg IN
        /\ fcall'.err = NoError
        /\ Occurrences(ValuesOf(ListItems(flist'[cls])), v) = 1
        /\ ListLen(flist'[cls]) =
              ListLen(flist[cls]) + (IF Occurrences(ValuesOf(Entries(cls)), v) = 0 THEN 1 ELSE 0)

\* C33: in both favourites policies every value occurs in at most one entry,
\* len is the number of distinct values accessed and not removed since, and
\* after access(v) returns v occurs exactly once, the size being one more
\* than before if v was absent and the same otherwise.
C33_EntriesUnique ==
    /\ [](EntriesUnique(Frequency) /\ EntriesUnique(MoveToFront))
    /\ [][AccessKeepsEntry(Frequency) /\ AccessKeepsEntry(MoveToFront)]_vars

\* the same for the frequency-ranked list alone
C33_FrequencyHalf ==
    [](EntriesUnique(Frequency)) /\ [][AccessKeepsEntry(Frequency)]_vars

\* the same for the move-to-front list alone
C33_MoveToFrontHalf ==
    [](EntriesUnique(MoveToFront)) /\ [][AccessKeepsEntry(MoveToFront)]_vars

\* the entries of e, in order, whose value is not v
EntriesWithout(e, v) == SelectSeq(e, LAMBDA x : x.value # v)

\* access(v), just called on the frequency-ranked list, has moved the entry
\* of v from index i (one past the end when v was absent) to index j <= i,
\* past entries whose counters are all below the new counter of v, to stand
\* at the front or directly behind a counter not below its own, and has left
\* the other entries as they were
AccessMovesPastSmaller ==
    (fcall'.cls = Frequency /\ fcall'.op = "access") =>
        LET v == fcall'.arg
            old == Entries(Frequency)
            new == ListItems(flist'[Frequency])
            i == IF Occurrences(ValuesOf(old), v) = 0 THEN Len(old) + 1
                 ELSE IndexOfValue(old, v)
            j == IndexOfValue(new, v)
        IN /\ fcall'.err = NoError
           /\ Occurrences(ValuesOf(new), v) = 1
           /\ j <= i
           /\ \A k \in j..(i - 1) : old[k].count < new[j].count
           /\ j > 1 => old[j - 1].count >= new[j].count
           /\ EntriesWithout(new, v) = EntriesWithout(old, v)

\* C34: in the frequency-ranked FavouritesList access(x) moves x forward past
\* exactly the contiguous run of predecessors whose counter is strictly less
\* than the new counter of x: x ends directly behind the rear-most earlier
\* entry whose counter is at least its own, or at the front; it never passes an
\* equal counter, never moves backward, and the others keep their order.
C34_AccessMovesPastSmaller == [][AccessMovesPastSmaller]_vars

\* access has left the value it was given, counter 2, directly behind an
\* entry of counter 2 and in front of an entry of counter 1
C34_Witness ==
    LET e == Entries(Frequency) IN
    /\ fcall.cls = Frequency /\ fcall.op = "access" /\ fcall.err = NoError
    /\ Len(e) = 3
    /\ e[1].count = 2
    /\ e[2].value = fcall.arg /\ e[2].count = 2
    /\ e[3].count = 1

\* the index of the item x in the sequence s
IndexOfItem(s, x) == CHOOSE i \in 1..Len(s) : s[i] = x

\* C35: insertion_sort is stable: two elements whose keys compare equal
\* stand, after the sort, in the order they stood in before it.
C35_SortStable ==
    scall.op = "insertion_sort" =>
        LET input == ListItems(scall.input)
            output == ListItems(plist)
        IN /\ Range(output) = Range(input)
           /\ \A i, j \in 1..Len(output) :
                 (i < j /\ output[i].key = output[j].key)
                 => IndexOfItem(input, output[i]) < IndexOfItem(input, output[j])

\* the list 2, 3, 2 has been sorted: the second 2 was moved in front of the
\* 3 and stands behind the first 2
C35_Witness ==
    /\ scall.op = "insertion_sort"
    /\ scall.err = NoError
    /\ KeysOf(ListItems(scall.input)) = <<2, 3, 2>>
    /\ scall.moves = 1
    /\ ListItems(plist)[1] = ListItems(scall.input)[1]
    /\ ListItems(plist)[2] = ListItems(scall.input)[3]

\* the sort relocates the element at index i of the input: an element in
\* front of it has a greater key, so the marker's item is greater when the
\* element is the pivot
Relocated(items, i) == \E k \in 1..(i - 1) : items[k].key > items[i].key

\* C36: insertion_sort relocates an element by inserting a copy of the item
\* in a new node and removing the old node.  After the sort the position of
\* an element obtained before it is valid and refers to the same element
\* exactly when the sort did not relocate the element, and is invalid for
\* every relocated element; the size of the list is the same.
C36_RelocationInvalidates ==
    scall.op = "insertion_sort" =>
        LET nodes == ListNodes(scall.input)
            input == ListItems(scall.input)
        IN /\ ListLen(plist) = ListLen(scall.input)
           /\ Len(ListNodes(plist)) = Len(nodes)
           /\ scall.moves = Cardinality({i \in 1..Len(nodes) : Relocated(input, i)})
           /\ \A i \in 1..Len(nodes) :
                 LET position == PL_make_position(scall.input, nodes[i]) IN
                 IF Relocated(input, i)
                 THEN /\ ~PL_validate(plist, position)
                      /\ nodes[i] \notin Range(ListNodes(plist))
                      /\ \E n \in Range(ListNodes(plist)) :
                            /\ n > scall.input.alloc
                            /\ plist.data[n] = input[i]
                 ELSE /\ PL_validate(plist, position)
                      /\ nodes[i] \in Range(ListNodes(plist))
                      /\ ItemAt(plist, position) = input[i]

\* the list 3, 1, 2 has been sorted: the positions of 1 and 2 are invalid,
\* that of 3 is valid, and the list holds two new nodes
C36_Witness ==
    /\ scall.op = "insertion_sort"
    /\ scall.err = NoError
    /\ KeysOf(ListItems(scall.input)) = <<3, 1, 2>>
    /\ scall.moves = 2
    /\ plist.alloc = scall.input.alloc + 2
    /\ PL_validate(plist, PL_make_position(plist, ListNodes(scall.input)[1]))
    /\ ~PL_validate(plist, PL_make_position(plist, ListNodes(scall.input)[2]))
    /\ ~PL_validate(plist, PL_make_position(plist, ListNodes(scall.input)[3]))

\* the counter of element in the sequence of entries e, 0 when it has none
CounterIn(e, element) ==
    IF \E i \in 1..Len(e) : e[i].value = element
    THEN e[IndexOfValue(e, element)].count
    ELSE 0

\* access(element), just called on the older list, has returned, and the
\* element has exactly one entry, its counter one above what it was
FavoritesAccessKeeps ==
    (fcall'.cls = Favorites /\ fcall'.op = "access") =>
        /\ fcall'.err = NoError
        /\ Occurrences(ValuesOf(ListItems(favorites')), fcall'.arg) = 1
        /\ CounterIn(ListItems(favorites'), fcall'.arg)
              = CounterIn(FavoritesEntries, fcall'.arg) + 1

\* C37: in the older FavoritesList (favorites_list.py) access(element) never
\* raises and never loses the entry: after it the element is in the list
\* exactly once with its count increased by one, also when the entry is not
\* at the front and no move is needed.
C37_OlderAccessKeepsEntry == [][FavoritesAccessKeeps]_vars

\* enqueue(element), just called on the older queue, has returned with the
\* size one more, the queue not empty and the element at the back
OlderEnqueueAppends ==
    (qcall'.cls = OlderQueue /\ qcall'.op = "enqueue") =>
        /\ qcall'.err = NoError
        /\ oldqueue'.size = oldqueue.size + 1
        /\ ~OlderCircularQueue_is_empty(oldqueue')
        /\ RingItems(oldqueue') = Append(RingItems(oldqueue), qcall'.arg)

\* dequeue, just called on the older queue when it held an element, has
\* returned the front element and left the others in their order
OlderDequeueFront ==
    (qcall'.cls = OlderQueue /\ qcall'.op = "dequeue" /\ RingItems(oldqueue) # <<>>) =>
        /\ qcall'.err = NoError
        /\ qcall'.ret = Head(RingItems(oldqueue))
        /\ RingItems(oldqueue') = Tail(RingItems(oldqueue))

\* C38: in the older CircularQueue (circular_queue.py) enqueue adds the
\* element to the back of the queue in every state, the empty queue included:
\* after it the size has grown by one and the queue is not empty, and later
\* dequeues return the elements in first-in first-out order.
C38_OlderEnqueueAddsToBack == [][OlderEnqueueAppends /\ OlderDequeueFront]_vars
====
